---- MODULE Spec2Model ----
(***************************************************************************)
(* A model of read_blend.py: the export of material settings and shader    *)
(* node graphs from a .blend file into a JSON payload.                     *)
(*                                                                         *)
(* Encoding of Python values:                                              *)
(*   - a dict is a record; an optional key is a field that is or is not in *)
(*     the record's DOMAIN;                                                *)
(*   - a nullable slot holds None (the empty set) or Some(v) (the set {v}); *)
(*   - text that the code strips or lower-cases is a sequence of           *)
(*     one-character strings; text that is only copied or compared is a    *)
(*     string;                                                             *)
(*   - a raised exception is the value Exc;                                *)
(*   - a DNA block is a record whose field `has` holds the names of the    *)
(*     fields its struct carries: block.get(name, default) gives the       *)
(*     default for a name outside `has`, block.get(name) raises KeyError.  *)
(***************************************************************************)
EXTENDS Integers, Sequences, FiniteSets, TLC

VARIABLES
    pc,                 \* position of the run: main / _build_export_payload
    file,               \* the opened BlendFile (read-only input)
    warnings,           \* the diagnostics sink (main's `warnings` list)
    mi,                 \* index of the material block being built
    material_entries,   \* the `materials` list built so far
    entry,              \* the material_entry dict under construction
    node_tree,          \* the bNodeTree block being serialized (None or Some)
    li,                 \* position in the tree's link list
    ni,                 \* position in the tree's node list
    linked_socket_ptrs, \* _collect_links: set of linked socket ptrs
    link_counts,        \* _collect_links: socket ptr -> number of links
    links,              \* _collect_links: serialized links
    all_nodes,          \* _collect_nodes: serialized nodes
    non_gltf_nodes,     \* _collect_nodes: summary of non-glTF nodes
    output_node_flags,  \* _collect_nodes: output node ptr -> raw flag
    payload,            \* the export payload (None until built)
    fs,                 \* the filesystem: the output directory and document
    arg,                \* harness: the arguments of a pure function call
    ret                 \* harness: its result (None until called)

vars == <<pc, file, warnings, mi, material_entries, entry, node_tree, li, ni,
          linked_socket_ptrs, link_counts, links, all_nodes, non_gltf_nodes,
          output_node_flags, payload, fs, arg, ret>>

-----------------------------------------------------------------------------
(* Python values *)

None == {}
Some(v) == {v}
The(o) == CHOOSE v \in o : TRUE
Exc == [exception |-> TRUE]

\* A value that the code computes once and then reads several times is bound
\* once, as the one element of a singleton: The({ e(x) : x \in {value} }).

\* a dict that has no key at all (Python {})
EmptyDict == [k \in {} |-> None]

-----------------------------------------------------------------------------
(* Text: str.strip() and str.lower() *)

Whitespace == {" ", "\t", "\n"}
UpperAlpha == <<"A","B","C","D","E","F","G","H","I","J","K","L","M",
                "N","O","P","Q","R","S","T","U","V","W","X","Y","Z">>
LowerAlpha == <<"a","b","c","d","e","f","g","h","i","j","k","l","m",
                "n","o","p","q","r","s","t","u","v","w","x","y","z">>

LowerChar(c) ==
    IF \E i \in DOMAIN UpperAlpha : UpperAlpha[i] = c
    THEN LowerAlpha[CHOOSE i \in DOMAIN UpperAlpha : UpperAlpha[i] = c]
    ELSE c

Lower(s) == [i \in DOMAIN s |-> LowerChar(s[i])]

RECURSIVE LStrip(_)
LStrip(s) == IF s # <<>> /\ Head(s) \in Whitespace THEN LStrip(Tail(s)) ELSE s

RECURSIVE RStrip(_)
RStrip(s) ==
    IF s # <<>> /\ s[Len(s)] \in Whitespace
    THEN RStrip(SubSeq(s, 1, Len(s) - 1))
    ELSE s

Strip(s) == RStrip(LStrip(s))

-----------------------------------------------------------------------------
(* Constants of read_blend.py *)

NON_GLTF_IDNAMES ==
    [ShaderNodeBsdfToon |-> "Toon BSDF",
     ShaderNodeShaderToRGB |-> "Shader to RGB",
     ShaderNodeValToRGB |-> "Color Ramp"]

IN_OUT_MAP == (1 :> "INPUT") @@ (2 :> "OUTPUT")

SOCKET_SUBTYPE_MAP ==
    (0 :> "NONE") @@ (1 :> "UNSIGNED") @@ (14 :> "ANGLE") @@ (15 :> "FACTOR")
    @@ (16 :> "PERCENTAGE")

SOCKET_TYPE_SUBTYPE_FALLBACK ==
    (0 :> "FLOAT") @@ (1 :> "VECTOR") @@ (2 :> "COLOR") @@ (3 :> "SHADER")

BLEND_METHOD_MAP ==
    (0 :> "OPAQUE") @@ (1 :> "CLIP") @@ (2 :> "HASHED") @@ (3 :> "BLEND")
    @@ (4 :> "BLEND")

TOON_COMPONENT_MAP == (0 :> "DIFFUSE") @@ (1 :> "GLOSSY")

MIX_BLEND_TYPE_MAP ==
    (0 :> "MIX") @@ (1 :> "DARKEN") @@ (2 :> "MULTIPLY") @@ (3 :> "BURN")
    @@ (4 :> "LIGHTEN") @@ (5 :> "SCREEN") @@ (6 :> "DODGE") @@ (7 :> "ADD")
    @@ (8 :> "OVERLAY") @@ (9 :> "SOFT_LIGHT") @@ (10 :> "LINEAR_LIGHT")
    @@ (11 :> "DIFFERENCE") @@ (12 :> "EXCLUSION") @@ (13 :> "SUBTRACT")
    @@ (14 :> "DIVIDE") @@ (15 :> "HUE") @@ (16 :> "SATURATION")
    @@ (17 :> "COLOR") @@ (18 :> "VALUE")

COLOR_RAMP_INTERPOLATION_MAP ==
    (0 :> "LINEAR") @@ (1 :> "EASE") @@ (2 :> "B_SPLINE") @@ (3 :> "CARDINAL")
    @@ (4 :> "CONSTANT")

COLOR_RAMP_HUE_MAP == (0 :> "NEAR") @@ (1 :> "FAR") @@ (2 :> "CW") @@ (3 :> "CCW")

COLOR_RAMP_COLOR_MODE_MAP == (0 :> "RGB") @@ (1 :> "HSV") @@ (2 :> "HSL")

NODE_MUTED_BIT == 8
NODE_DO_OUTPUT_BIT == 64
MA_BL_CULL_BACKFACE == 64

\* flag & bit, for a bit that is a power of two
BitSet(flag, bit) == (flag \div bit) % 2 = 1

-----------------------------------------------------------------------------
(* The access layer (blender_asset_tracer), as read_blend.py uses it *)

\* block.get(name, default): the default when the struct has no such field
Get(block, name, default) == IF name \in block.has THEN block[name] ELSE default

\* block.get(name): KeyError when the struct has no such field
CanGet(block, name) == name \in block.has

\* blend_file.block_from_addr.get(ptr) if ptr else None
BlockFromAddr(blend_file, ptr) ==
    IF ptr # 0 /\ ptr \in DOMAIN blend_file.block_from_addr
    THEN Some(blend_file.block_from_addr[ptr])
    ELSE None

-----------------------------------------------------------------------------
(* enum_or_unknown *)

EnumOrUnknownDup(code, mapping, enum_name, sink) ==
    IF code \in DOMAIN mapping
    THEN [name |-> mapping[code], warnings |-> sink]
    ELSE [name |-> "UNKNOWN_" \o ToString(code),
          warnings |-> sink \o << "Unknown " \o enum_name \o " enum value: " \o ToString(code),
                                  "Unknown " \o enum_name \o " enum value: " \o ToString(code) >>]

\* returns the name and the sink after the call (the sink is mutated in place)
EnumOrUnknown(code, mapping, enum_name, sink) ==
    IF code \in DOMAIN mapping
    THEN [name |-> mapping[code], warnings |-> sink]
    ELSE [name |-> "UNKNOWN_" \o ToString(code),
          warnings |-> Append(sink, "Unknown " \o enum_name \o " enum value: "
                                    \o ToString(code))]

-----------------------------------------------------------------------------
(* id_name, as_str, ptr_to_ref *)

NUL == "\\0"    \* stands for the byte 0

RECURSIVE RStripNul(_)
RStripNul(s) ==
    IF s # <<>> /\ s[Len(s)] = NUL THEN RStripNul(SubSeq(s, 1, Len(s) - 1)) ELSE s

\* as_str on bytes: decode, then rstrip("\x00")
AsStr(bytes) == RStripNul(bytes)

Unknown == <<"<","u","n","k","n","o","w","n",">">>

\* block.id_name: the bytes of (id, name), None for a block that is no ID
BlockIdName(block) == IF "id_name" \in DOMAIN block THEN block.id_name ELSE None

\* id_name(block): the name without its 2-character prefix, "<unknown>" on error
IdName(block) ==
    IF BlockIdName(block) = None
    THEN Unknown
    ELSE SubSeq(The(BlockIdName(block)), 3, Len(The(BlockIdName(block))))

\* block.id_name[:2] decoded; None[:2] raises TypeError
IdCode(block) ==
    IF BlockIdName(block) = None
    THEN Exc
    ELSE AsStr(SubSeq(The(BlockIdName(block)), 1, 2))

\* The result of a call that returns None or a dict, or raises:
\* [st |-> "none"], [st |-> "ok", val |-> dict] or [st |-> "exc"].
RNone == [st |-> "none"]
RExc == [st |-> "exc"]
ROk(v) == [st |-> "ok", val |-> v]

\* None, {code, name}, or TypeError when the owning block is no ID
PtrToRef(blend_file, ptr) ==
    LET block == BlockFromAddr(blend_file, ptr)
    IN  IF block = None THEN RNone
        ELSE IF BlockIdName(The(block)) = None THEN RExc
        ELSE ROk([code |-> IdCode(The(block)), name |-> IdName(The(block))])

-----------------------------------------------------------------------------
(* _first_pointer, _iter_listbase *)

\* A pointer field of a block holds the outcome of get_pointer on it:
\* [st |-> "raise"], [st |-> "null"], or [st |-> "ok", ...] with the target.
RECURSIVE FirstPointer(_, _)
FirstPointer(block, pointer_names) ==
    IF pointer_names = <<>> THEN None
    ELSE LET pointer == block[Head(pointer_names)]
         IN  IF pointer.st = "ok"
             THEN Some(pointer)
             ELSE FirstPointer(block, Tail(pointer_names))

\* The entries a listbase yields and whether the walk then raises (its last
\* `next` pointer resolves to no block): the generator raises while it is
\* iterated, outside the try of _iter_listbase.
IterListbase(head) ==
    IF head = None
    THEN [items |-> <<>>, dangling |-> FALSE]
    ELSE [items |-> The(head).items, dangling |-> The(head).dangling]

-----------------------------------------------------------------------------
(* decode_socket_default, socket_subtype_name, extract_socket *)

\* normalize_value on a number: the number
NormalizeValue(value) == value

KeyPairs ==
    << <<"min", "min">>, <<"max", "max">>, <<"soft_min", "soft_min">>,
       <<"soft_max", "soft_max">>, <<"softmin", "soft_min">>,
       <<"softmax", "soft_max">> >>

RECURSIVE DecodeBounds(_, _, _)
DecodeBounds(default_ptr, decoded, i) ==
    IF i > Len(KeyPairs) THEN decoded
    ELSE LET dna_key == KeyPairs[i][1]
             json_key == KeyPairs[i][2]
         IN  IF json_key \in DOMAIN decoded \/ ~CanGet(default_ptr, dna_key)
             THEN DecodeBounds(default_ptr, decoded, i + 1)
             ELSE DecodeBounds(default_ptr,
                               decoded @@ (json_key :> NormalizeValue(default_ptr[dna_key])),
                               i + 1)

\* (decoded, subtype_code)
DecodeSocketDefault(sock) ==
    LET default_ptr == sock.default_value
    IN  IF default_ptr.st # "ok"
        THEN [decoded |-> EmptyDict, subtype_code |-> None]
        ELSE LET d == default_ptr.block
                 first == IF CanGet(d, "value")
                          THEN ("default" :> NormalizeValue(d.value))
                          ELSE EmptyDict
             IN  [decoded |-> DecodeBounds(d, first, 1),
                  subtype_code |-> IF CanGet(d, "subtype") THEN Some(d.subtype) ELSE None]

\* the type's default preferred to the explicit subtype code
SocketSubtypeNameTypeFirst(sock_type, subtype_code) ==
    IF sock_type # None /\ The(sock_type) \in DOMAIN SOCKET_TYPE_SUBTYPE_FALLBACK
    THEN SOCKET_TYPE_SUBTYPE_FALLBACK[The(sock_type)]
    ELSE IF subtype_code # None /\ The(subtype_code) \in DOMAIN SOCKET_SUBTYPE_MAP
    THEN SOCKET_SUBTYPE_MAP[The(subtype_code)]
    ELSE "UNKNOWN"

SocketSubtypeName(sock_type, subtype_code) ==
    IF subtype_code # None /\ The(subtype_code) \in DOMAIN SOCKET_SUBTYPE_MAP
    THEN SOCKET_SUBTYPE_MAP[The(subtype_code)]
    ELSE IF sock_type # None /\ The(sock_type) \in DOMAIN SOCKET_TYPE_SUBTYPE_FALLBACK
    THEN SOCKET_TYPE_SUBTYPE_FALLBACK[The(sock_type)]
    ELSE "UNKNOWN"

\* IN_OUT_MAP.get(in_out_raw, in_out_raw), in_out_raw = block.get(b"in_out", None)
InOut(block) ==
    IF ~CanGet(block, "in_out") THEN None
    ELSE IF block.in_out \in DOMAIN IN_OUT_MAP THEN Some(IN_OUT_MAP[block.in_out])
    ELSE Some(block.in_out)

\* bool(ptr in linked_socket_ptrs) if ptr else False
IsLinked(ptr, linked, counts) == ptr # 0 /\ ptr \in linked

\* int(link_counts.get(ptr, 0)) if ptr else 0
LinkCount(ptr, linked, counts) ==
    IF ptr # 0 /\ ptr \in DOMAIN counts THEN counts[ptr] ELSE 0

\* the socket dict, or Exc when a read without default finds no field
ExtractSocket(sock, linked, counts) ==
    IF ~CanGet(sock, "name") \/ ~CanGet(sock, "identifier")
    THEN Exc
    ELSE LET ptr == sock.addr
             sock_type == IF CanGet(sock, "type") THEN Some(sock.type) ELSE None
             dd == DecodeSocketDefault(sock)
             info == [ptr |-> ptr,
                      name |-> sock.name,
                      identifier |-> sock.identifier,
                      type |-> sock_type,
                      subtype |-> SocketSubtypeName(sock_type, dd.subtype_code),
                      in_out |-> InOut(sock),
                      is_linked |-> IsLinked(ptr, linked, counts),
                      link_count |-> LinkCount(ptr, linked, counts)]
         IN  info @@ dd.decoded

-----------------------------------------------------------------------------
(* extract_color_ramp, extract_linked_image, extract_node_properties *)

Min(a, b) == IF a <= b THEN a ELSE b
Max(a, b) == IF a >= b THEN a ELSE b

\* every slot of the array, whatever the count says
SliceAll(elements, total) == elements

\* elements[:total]
SliceTo(elements, total) ==
    IF total >= 0
    THEN SubSeq(elements, 1, Min(total, Len(elements)))
    ELSE SubSeq(elements, 1, Max(Len(elements) + total, 0))

ColorBandPoint(color_band_data) ==
    [pos |-> Get(color_band_data, "pos", 0),
     color |-> << Get(color_band_data, "r", 0), Get(color_band_data, "g", 0),
                  Get(color_band_data, "b", 0), Get(color_band_data, "a", 1) >>]

\* (settings, points) and the sink after the call; (None, None) without a
\* ColorBand storage
ExtractColorRamp(node, sink) ==
    LET storage == node.storage
    IN  IF storage.st # "ok" \/ storage.block.dna_type_name # "ColorBand"
        THEN [settings |-> None, points |-> None, warnings |-> sink]
        ELSE LET ramp == storage.block
                 e1 == EnumOrUnknown(Get(ramp, "ipotype", 0),
                                     COLOR_RAMP_INTERPOLATION_MAP,
                                     "ColorRamp.interpolation", sink)
                 e2 == EnumOrUnknown(Get(ramp, "color_mode", 0),
                                     COLOR_RAMP_COLOR_MODE_MAP,
                                     "ColorRamp.color_mode", e1.warnings)
                 e3 == EnumOrUnknown(Get(ramp, "ipotype_hue", 0),
                                     COLOR_RAMP_HUE_MAP,
                                     "ColorRamp.hue_interpolation", e2.warnings)
                 elements == SliceTo(Get(ramp, "data", <<>>), Get(ramp, "tot", 0))
             IN  [settings |-> Some([interpolation |-> e1.name,
                                     color_mode |-> e2.name,
                                     hue_interpolation |-> e3.name]),
                  points |-> Some([i \in DOMAIN elements |-> ColorBandPoint(elements[i])]),
                  warnings |-> e3.warnings]

\* None or {filepath, is_packed, colorspace}
ExtractLinkedImage(node, blend_file) ==
    LET image == BlockFromAddr(blend_file, Get(node, "id", 0))
    IN  IF image = None THEN RNone
        ELSE IF BlockIdName(The(image)) = None THEN RExc
        ELSE IF IdCode(The(image)) # <<"I", "M">> THEN RNone
        ELSE LET image_block == The(image)
                 filepath ==
                     IF CanGet(image_block, "filepath") /\ image_block.filepath # <<>>
                     THEN image_block.filepath
                     ELSE IF CanGet(image_block, "name") /\ image_block.name # <<>>
                     THEN image_block.name
                     ELSE IdName(image_block)
                 colorspace ==
                     IF CanGet(image_block, "colorspace_settings")
                     THEN Some(image_block.colorspace_settings)
                     ELSE None
                 is_packed ==
                     \/ Get(image_block, "packedfile", 0) # 0
                     \/ image_block.packedfiles.st = "ok"
             IN  ROk([filepath |-> filepath, is_packed |-> is_packed,
                      colorspace |-> colorspace])

\* put key -> value into a dict (an existing key is overwritten)
Put(d, key, value) == (key :> value) @@ d

\* every node decoded as if it were a toon node
ExtractNodePropertiesAny(node, idname, sink) ==
    LET e == EnumOrUnknown(Get(node, "custom1", 0), TOON_COMPONENT_MAP,
                           "ToonBSDF.component", sink)
    IN  [properties |-> [component |-> e.name], warnings |-> e.warnings]

\* the properties dict (empty if none apply) and the sink after the call
ExtractNodeProperties(node, idname, sink) ==
    IF idname = "ShaderNodeBsdfToon"
    THEN LET e == EnumOrUnknown(Get(node, "custom1", 0), TOON_COMPONENT_MAP,
                                "ToonBSDF.component", sink)
         IN  [properties |-> [component |-> e.name], warnings |-> e.warnings]
    ELSE IF idname = "ShaderNodeMixRGB"
    THEN LET e == EnumOrUnknown(Get(node, "custom1", 0), MIX_BLEND_TYPE_MAP,
                                "MixRGB.blend_type", sink)
         IN  [properties |-> [blend_type |-> e.name,
                              use_clamp |-> Get(node, "custom2", 0) # 0],
              warnings |-> e.warnings]
    ELSE IF idname = "ShaderNodeMix"
    THEN IF node.storage.st = "ok" /\ node.storage.block.dna_type_name = "NodeShaderMix"
         THEN LET storage == node.storage.block
                  e == EnumOrUnknown(Get(storage, "blend_type", 0), MIX_BLEND_TYPE_MAP,
                                     "Mix.blend_type", sink)
              IN  [properties |-> [blend_type |-> e.name,
                                   use_clamp |-> \/ Get(storage, "clamp_result", 0) # 0
                                                 \/ Get(storage, "clamp_factor", 0) # 0],
                   warnings |-> e.warnings]
         ELSE [properties |-> EmptyDict, warnings |-> sink]
    ELSE IF idname = "ShaderNodeValToRGB"
    THEN LET r == ExtractColorRamp(node, sink)
         IN  [properties |-> IF r.settings # None
                             THEN [ramp_settings |-> The(r.settings)]
                             ELSE EmptyDict,
              warnings |-> r.warnings]
    ELSE [properties |-> EmptyDict, warnings |-> sink]

-----------------------------------------------------------------------------
(* extract_node *)

\* One side's socket list with the sockets decoded before the first failure
ExtractSocketsPartial(list, linked, counts) ==
    LET decoded == [i \in DOMAIN list.items |->
                       ExtractSocket(list.items[i], linked, counts)]
        good == { i \in DOMAIN decoded : \A j \in 1..i : decoded[j] # Exc }
    IN  IF list.st # "ok" THEN <<>> ELSE [i \in good |-> decoded[i]]

\* One side's socket list: the decoded sockets, or [] when the head pointer
\* does not resolve or anything raises while the list is walked and decoded.
ExtractSockets(list, linked, counts) ==
    IF list.st # "ok" \/ list.dangling
       \/ \E i \in DOMAIN list.items : ExtractSocket(list.items[i], linked, counts) = Exc
    THEN <<>>
    ELSE [i \in DOMAIN list.items |-> ExtractSocket(list.items[i], linked, counts)]

\* (node_dict, node_flag) and the sink after the call, or Exc
ExtractNode(node, blend_file, linked, counts, sink) ==
    IF ~CanGet(node, "idname") \/ ~CanGet(node, "name") \/ ~CanGet(node, "label")
    THEN Exc
    ELSE
    LET idname == node.idname
        node_flag == Get(node, "flag", 0)
        base == [ptr |-> node.addr,
                 idname |-> idname,
                 ui_name |-> node.name,
                 label |-> node.label,
                 type |-> IF CanGet(node, "type") THEN Some(node.type) ELSE None,
                 loc |-> << Get(node, "locx", 0), Get(node, "locy", 0) >>,
                 width |-> IF CanGet(node, "width") THEN Some(node.width) ELSE None,
                 height |-> IF CanGet(node, "height") THEN Some(node.height) ELSE None,
                 mute |-> BitSet(node_flag, NODE_MUTED_BIT),
                 inputs |-> ExtractSockets(node.inputs, linked, counts),
                 outputs |-> ExtractSockets(node.outputs, linked, counts)]
        linked_id_ptr == Get(node, "id", 0)
        linked_ref == IF linked_id_ptr # 0 THEN PtrToRef(blend_file, linked_id_ptr) ELSE RNone
        linked_image == IF linked_ref.st = "ok" /\ linked_ref.val.code = <<"I", "M">>
                        THEN ExtractLinkedImage(node, blend_file)
                        ELSE RNone
        with_id == IF linked_ref.st = "ok"
                   THEN Put(base, "linked_id", linked_ref.val)
                   ELSE base
        with_image == IF linked_image.st = "ok"
                      THEN Put(with_id, "linked_image", linked_image.val)
                      ELSE with_id
        with_props(props) == IF DOMAIN props.properties # {}
                             THEN Put(with_image, "properties", props.properties)
                             ELSE with_image
        second(props) == IF idname = "ShaderNodeValToRGB"
                         THEN ExtractColorRamp(node, props.warnings)
                         ELSE [settings |-> None, points |-> None,
                               warnings |-> props.warnings]
        with_ramp(props, ramp) == IF ramp.points # None /\ The(ramp.points) # <<>>
                                  THEN Put(with_props(props), "color_ramp", The(ramp.points))
                                  ELSE with_props(props)
    IN  IF linked_ref.st = "exc" \/ linked_image.st = "exc"
        THEN Exc
        ELSE The({ The({ [node_data |-> with_ramp(props, ramp), node_flag |-> node_flag,
                          warnings |-> ramp.warnings] :
                         ramp \in {second(props)} }) :
                   props \in {ExtractNodeProperties(node, idname, sink)} })

-----------------------------------------------------------------------------
(* plot_node_tree.py, _node_geometry: the reader of a decoded node's size *)

DEFAULT_NODE_WIDTH == 140
DEFAULT_NODE_HEIGHT == 100

\* node.get(key) or default: a null and a zero both give the default
OrDefault(value, default) ==
    IF value = None \/ The(value) = 0 THEN default ELSE The(value)

\* (x, y_top, width, height) of a serialized node
NodeGeometry(node) ==
    << node.loc[1], node.loc[2],
       OrDefault(node.width, DEFAULT_NODE_WIDTH),
       OrDefault(node.height, DEFAULT_NODE_HEIGHT) >>

-----------------------------------------------------------------------------
(* extract_link *)

\* a node reference made from any non-null address, owned or not
NodeInfoAssumed(blend_file, ptr) ==
    IF ptr = 0 THEN RNone
    ELSE IF ptr \notin DOMAIN blend_file.block_from_addr
    THEN ROk([ptr |-> ptr, ui_name |-> "", idname |-> "", type |-> None])
    ELSE ROk([ptr |-> ptr,
              ui_name |-> blend_file.block_from_addr[ptr].name,
              idname |-> blend_file.block_from_addr[ptr].idname,
              type |-> Some(blend_file.block_from_addr[ptr].type)])

\* node_info(ptr): None, the light node reference, or KeyError
NodeInfo(blend_file, ptr) ==
    LET block == BlockFromAddr(blend_file, ptr)
    IN  IF block = None THEN RNone
        ELSE IF ~CanGet(The(block), "name") \/ ~CanGet(The(block), "idname") THEN RExc
        ELSE ROk([ptr |-> ptr,
                  ui_name |-> The(block).name,
                  idname |-> The(block).idname,
                  type |-> IF CanGet(The(block), "type") THEN Some(The(block).type) ELSE None])

SocketInfoNull(blend_file, ptr) == RNone

\* socket_info(ptr): None, the light socket reference, or KeyError
SocketInfo(blend_file, ptr) ==
    LET block == BlockFromAddr(blend_file, ptr)
    IN  IF block = None THEN RNone
        ELSE IF ~CanGet(The(block), "name") \/ ~CanGet(The(block), "identifier") THEN RExc
        ELSE ROk([ptr |-> ptr,
                  name |-> The(block).name,
                  identifier |-> The(block).identifier,
                  in_out |-> InOut(The(block)),
                  type |-> IF CanGet(The(block), "type") THEN Some(The(block).type) ELSE None])

\* a nullable slot of the output from a result that did not raise
Nullable(r) == IF r.st = "ok" THEN Some(r.val) ELSE None

\* the link dict, or Exc
ExtractLink(link, blend_file) ==
    LET from_node == NodeInfo(blend_file, Get(link, "fromnode", 0))
        from_socket == SocketInfo(blend_file, Get(link, "fromsock", 0))
        to_node == NodeInfo(blend_file, Get(link, "tonode", 0))
        to_socket == SocketInfo(blend_file, Get(link, "tosock", 0))
    IN  IF "exc" \in {from_node.st, from_socket.st, to_node.st, to_socket.st}
        THEN Exc
        ELSE [ptr |-> link.addr,
              from_node |-> Nullable(from_node),
              from_socket |-> Nullable(from_socket),
              to_node |-> Nullable(to_node),
              to_socket |-> Nullable(to_socket),
              flag |-> IF CanGet(link, "flag") THEN Some(link.flag) ELSE None]

-----------------------------------------------------------------------------
(* extract_material_settings *)

\* the three reads under one try: the first missing field ends the reading
ExtractMaterialSettingsOneTry(material_block, sink) ==
    LET has_method == CanGet(material_block, "blend_method")
        has_alpha == has_method /\ CanGet(material_block, "alpha_threshold")
        has_flag == has_alpha /\ CanGet(material_block, "blend_flag")
        e == IF has_method
             THEN EnumOrUnknown(material_block.blend_method, BLEND_METHOD_MAP,
                                "Material.blend_method", sink)
             ELSE [name |-> "", warnings |-> sink]
    IN  [settings |->
            [blend_method |-> IF has_method THEN Some(e.name) ELSE None,
             alpha_threshold |-> IF has_alpha
                                 THEN Some(material_block.alpha_threshold) ELSE None,
             use_backface_culling |->
                 has_flag /\ BitSet(material_block.blend_flag, MA_BL_CULL_BACKFACE)],
         warnings |-> e.warnings]

\* the settings dict and the sink after the call
ExtractMaterialSettings(material_block, sink) ==
    LET e == IF CanGet(material_block, "blend_method")
             THEN EnumOrUnknown(material_block.blend_method, BLEND_METHOD_MAP,
                                "Material.blend_method", sink)
             ELSE [name |-> "", warnings |-> sink]
    IN  [settings |->
            [blend_method |-> IF CanGet(material_block, "blend_method")
                              THEN Some(e.name) ELSE None,
             alpha_threshold |-> IF CanGet(material_block, "alpha_threshold")
                                 THEN Some(material_block.alpha_threshold) ELSE None,
             use_backface_culling |-> BitSet(Get(material_block, "blend_flag", 0),
                                             MA_BL_CULL_BACKFACE)],
         warnings |-> e.warnings]

-----------------------------------------------------------------------------
(* extract_active_output, extract_output_targets *)

OutputMaterial == "ShaderNodeOutputMaterial"

\* dict.get(key, default) for a dict keyed by ints or by text
Lookup(d, key, default) == IF key \in DOMAIN d THEN d[key] ELSE default

\* the index keyed by the lower-cased texts as they stand, blanks included
RECURSIVE SocketByNameLower(_, _)
SocketByNameLower(input_sockets, acc) ==
    IF input_sockets = <<>> THEN acc
    ELSE LET socket == Head(input_sockets)
             a1 == IF socket.name # <<>>
                   THEN Put(acc, Lower(socket.name), socket.identifier) ELSE acc
             a2 == IF socket.identifier # <<>>
                   THEN Put(a1, Lower(socket.identifier), socket.identifier) ELSE a1
         IN  SocketByNameLower(Tail(input_sockets), a2)

RECURSIVE SocketByName(_, _)
SocketByName(input_sockets, acc) ==
    IF input_sockets = <<>> THEN acc
    ELSE LET socket == Head(input_sockets)
             socket_name == Lower(Strip(socket.name))
             socket_identifier == socket.identifier
             a1 == IF socket_name # <<>> THEN Put(acc, socket_name, socket_identifier) ELSE acc
             a2 == IF socket_identifier # <<>>
                   THEN Put(a1, Lower(Strip(socket_identifier)), socket_identifier)
                   ELSE a1
         IN  SocketByName(Tail(input_sockets), a2)

Surface == <<"s","u","r","f","a","c","e">>
Volume == <<"v","o","l","u","m","e">>
Displacement == <<"d","i","s","p","l","a","c","e","m","e","n","t">>

OutputNodes(node_entries) ==
    SelectSeq(node_entries, LAMBDA node : node.idname = OutputMaterial)

ActiveNodeFirst(node_entries, flags) == Head(OutputNodes(node_entries))

\* the first node of the list, whatever its type
ActiveNodeOfAnyType(node_entries, flags) == Head(node_entries)

\* the node extract_active_output picks, for a list that holds an output node
ActiveNode(node_entries, flags) ==
    LET output_nodes == OutputNodes(node_entries)
        flagged == SelectSeq(output_nodes,
                             LAMBDA node : BitSet(Lookup(flags, node.ptr, 0),
                                                  NODE_DO_OUTPUT_BIT))
    IN  IF flagged # <<>> THEN Head(flagged) ELSE Head(output_nodes)

\* (active_output, socket_lookup); active_output is None without output node
ExtractActiveOutput(node_entries, flags) ==
    IF OutputNodes(node_entries) = <<>>
    THEN [active_output |-> None, socket_lookup |-> EmptyDict]
    ELSE The({ The({
         LET found(label) == label \in DOMAIN socket_by_name
                             /\ socket_by_name[label] # <<>>
             a0 == [node_ptr |-> active_node.ptr]
             a1 == IF found(Surface)
                   THEN Put(a0, "surface_socket_identifier", socket_by_name[Surface])
                   ELSE a0
             a2 == IF found(Volume)
                   THEN Put(a1, "volume_socket_identifier", socket_by_name[Volume])
                   ELSE a1
             a3 == IF found(Displacement)
                   THEN Put(a2, "displacement_socket_identifier",
                            socket_by_name[Displacement])
                   ELSE a2
         IN  [active_output |-> Some(a3), socket_lookup |-> socket_by_name] :
             socket_by_name \in {SocketByName(active_node.inputs, EmptyDict)} }) :
         active_node \in {ActiveNode(node_entries, flags)} })

\* (to_socket.get("identifier") or to_socket.get("name") or "").strip().lower()
TargetKey(to_socket) ==
    IF to_socket = None THEN <<>>
    ELSE IF The(to_socket).identifier # <<>> THEN Lower(Strip(The(to_socket).identifier))
    ELSE Lower(Strip(The(to_socket).name))

TargetOf(link) ==
    [from_node_ptr |-> IF link.from_node = None THEN None
                       ELSE Some(The(link.from_node).ptr),
     from_socket_identifier |-> IF link.from_socket = None THEN None
                                ELSE Some(The(link.from_socket).identifier)]

RECURSIVE OutputTargetsKeepFirst(_, _, _)
OutputTargetsKeepFirst(active_ptr, link_list, targets) ==
    IF link_list = <<>> \/ active_ptr = 0 THEN targets
    ELSE LET link == Head(link_list)
             target_key == TargetKey(link.to_socket)
         IN  IF link.to_node = None \/ The(link.to_node).ptr # active_ptr
                \/ target_key = <<>> \/ target_key \in DOMAIN targets
             THEN OutputTargetsKeepFirst(active_ptr, Tail(link_list), targets)
             ELSE OutputTargetsKeepFirst(active_ptr, Tail(link_list),
                                         Put(targets, target_key, TargetOf(link)))

RECURSIVE OutputTargets(_, _, _)
OutputTargets(active_ptr, link_list, targets) ==
    IF link_list = <<>> \/ active_ptr = 0 THEN targets
    ELSE LET link == Head(link_list)
             target_key == TargetKey(link.to_socket)
         IN  IF link.to_node = None \/ The(link.to_node).ptr # active_ptr
                \/ target_key = <<>>
             THEN OutputTargets(active_ptr, Tail(link_list), targets)
             ELSE OutputTargets(active_ptr, Tail(link_list),
                                Put(targets, target_key, TargetOf(link)))

\* the links scanned from the last to the first
ExtractOutputTargetsBackwards(active_ptr, link_list) ==
    OutputTargets(active_ptr,
                  [i \in DOMAIN link_list |-> link_list[Len(link_list) + 1 - i]],
                  EmptyDict)

\* extract_output_targets(active_ptr, links)
ExtractOutputTargets(active_ptr, link_list) ==
    OutputTargets(active_ptr, link_list, EmptyDict)

-----------------------------------------------------------------------------
(* _collect_links, _collect_nodes: one step per list entry *)

\* the socket is recorded, its count is not accumulated
TouchOnce(agg, ptr) ==
    IF ptr # 0
    THEN [linked_socket_ptrs |-> agg.linked_socket_ptrs \cup {ptr},
          link_counts |-> (ptr :> 1) @@ agg.link_counts]
    ELSE agg

\* the socket is recorded and counted whatever its address, null included
TouchAny(agg, ptr) ==
    [linked_socket_ptrs |-> agg.linked_socket_ptrs \cup {ptr},
     link_counts |-> Put(agg.link_counts, ptr, Lookup(agg.link_counts, ptr, 0) + 1)]

\* linked_socket_ptrs.add(ptr); link_counts[ptr] = link_counts.get(ptr, 0) + 1
Touch(agg, ptr) ==
    IF ptr # 0
    THEN [linked_socket_ptrs |-> agg.linked_socket_ptrs \cup {ptr},
          link_counts |-> Put(agg.link_counts, ptr, Lookup(agg.link_counts, ptr, 0) + 1)]
    ELSE agg

CollectLinkCountOnly(link, agg) ==
    [linked_socket_ptrs |-> Touch(agg, Get(link, "fromsock", 0)).linked_socket_ptrs,
     link_counts |->
         Touch(Touch(agg, Get(link, "fromsock", 0)), Get(link, "tosock", 0)).link_counts]

\* the body of the loop of _collect_links on one link: the aggregates after it
CollectLink(link, agg) ==
    Touch(Touch(agg, Get(link, "fromsock", 0)), Get(link, "tosock", 0))

\* the summary entry of a non-glTF node
NonGltfEntry(node_info) ==
    [ptr |-> node_info.ptr, idname |-> node_info.idname,
     ui_name |-> node_info.ui_name, kind |-> NON_GLTF_IDNAMES[node_info.idname]]

-----------------------------------------------------------------------------
(* _build_node_tree_entry, _build_material_entry, _build_export_payload *)

\* the node-tree dict, from the results of the two passes
BuildNodeTreeEntry(tree, link_list, node_list, non_gltf, flags) ==
    LET e0 == [name |-> IdName(tree), id_code |-> IdCode(tree)]
        e1 == IF link_list # <<>> THEN Put(e0, "links", link_list) ELSE e0
        e2 == IF node_list # <<>> THEN Put(e1, "nodes", node_list) ELSE e1
        e3 == IF non_gltf # <<>> THEN Put(e2, "non_gltf_nodes", non_gltf) ELSE e2
        e4(active) == IF active # None THEN Put(e3, "active_output", The(active)) ELSE e3
        targets(active) == IF active # None
                           THEN ExtractOutputTargets(The(active).node_ptr, link_list)
                           ELSE EmptyDict
    IN  The({ The({ IF DOMAIN output_targets # {}
                    THEN Put(e4(active), "output_targets", output_targets)
                    ELSE e4(active) :
                   output_targets \in {targets(active)} }) :
              active \in {ExtractActiveOutput(node_list, flags).active_output} })

HasNodesAlways(tree_pointer) == TRUE

\* node_tree is not None
HasNodes(tree_pointer) == tree_pointer # None

\* the material dict of a builder that decodes the settings only while the
\* sink it shares with the other materials is still empty
MaterialEntryHeadSharedSink(material_block, tree_pointer, sink) ==
    LET s == ExtractMaterialSettings(material_block, sink)
    IN  [entry |-> [name |-> IdName(material_block),
                    has_nodes |-> HasNodes(tree_pointer),
                    node_tree_name |-> IF tree_pointer # None
                                       THEN Some(IdName(The(tree_pointer).block))
                                       ELSE None,
                    settings |-> IF sink = <<>> THEN s.settings ELSE EmptyDict],
         warnings |-> s.warnings]

\* the material dict before its node tree is attached, and the sink after
MaterialEntryHead(material_block, tree_pointer, sink) ==
    LET s == ExtractMaterialSettings(material_block, sink)
    IN  [entry |-> [name |-> IdName(material_block),
                    has_nodes |-> HasNodes(tree_pointer),
                    node_tree_name |-> IF tree_pointer # None
                                       THEN Some(IdName(The(tree_pointer).block))
                                       ELSE None,
                    settings |-> s.settings],
         warnings |-> s.warnings]

\* f"{major}.{minor}.{patch}"
BlenderVersionString(blend_file) ==
    ToString(blend_file.version \div 100) \o "." \o ToString(blend_file.version % 100)
    \o "." \o ToString(blend_file.file_subversion)

SCHEMA_VERSION == "2.0.0"

\* payload["warnings"] is the sink list itself, not a copy: it holds what the
\* sink holds when the payload is read
WarningsField(sink_at_call, sink_at_dump) == sink_at_dump

-----------------------------------------------------------------------------
(* The input: bounded families of .blend files *)

MaxNodes == 2       \* nodes of a tree in the topology family
MaxLinks == 2       \* links of a tree
MaxMaterials == 2   \* material blocks of a file in the materials family

Dangling == 100 - 1  \* an address no block of the file owns

NullPointer == [st |-> "null"]
RaisingPointer == [st |-> "raise"]

\* a ListBase whose walk yields `items`
ListOf(items) ==
    IF items = <<>>
    THEN [st |-> "null", items |-> <<>>, dangling |-> FALSE]
    ELSE [st |-> "ok", items |-> items, dangling |-> FALSE]

SocketFields == {"name", "identifier", "type", "in_out"}
NodeFields == {"idname", "name", "label", "type", "locx", "locy", "width", "height",
               "flag", "custom1", "custom2", "id"}
LinkFields == {"fromnode", "tonode", "fromsock", "tosock", "flag"}
MaterialFields == {"blend_method", "alpha_threshold", "blend_flag"}

tSurface == <<"S","u","r","f","a","c","e">>
tVolume == <<"V","o","l","u","m","e">>
tBSDF == <<"B","S","D","F">>
tColor == <<"C","o","l","o","r">>

RawSocket(addr, identifier, name, in_out) ==
    [addr |-> addr, has |-> SocketFields, name |-> name, identifier |-> identifier,
     type |-> 3, in_out |-> in_out, default_value |-> NullPointer]

RawNode(addr, idname, flag, inputs, outputs) ==
    [addr |-> addr, has |-> NodeFields, idname |-> idname, name |-> idname,
     label |-> "", type |-> 0, locx |-> 0, locy |-> 0, width |-> 140, height |-> 100,
     flag |-> flag, custom1 |-> 0, custom2 |-> 0, id |-> 0, storage |-> NullPointer,
     inputs |-> ListOf(inputs), outputs |-> ListOf(outputs)]

RawLink(addr, fromnode, fromsock, tonode, tosock) ==
    [addr |-> addr, has |-> LinkFields, fromnode |-> fromnode, fromsock |-> fromsock,
     tonode |-> tonode, tosock |-> tosock, flag |-> 0]

RawTree(addr, nodes, link_items) ==
    [addr |-> addr, id_name |-> Some(<<"N","T","S","h","a","d","e","r">>),
     nodes |-> ListOf(nodes), links |-> ListOf(link_items)]

PointerTo(block) == [st |-> "ok", block |-> block]

RawMaterial(addr, nodetree, node_tree_alt) ==
    [addr |-> addr, id_name |-> Some(<<"M","A","M","a","t">>), has |-> MaterialFields,
     blend_method |-> 0, alpha_threshold |-> 0, blend_flag |-> 0,
     nodetree |-> nodetree, node_tree |-> node_tree_alt]

\* the address table of a file: every node and socket of its trees
RECURSIVE TableOfBlocks(_)
TableOfBlocks(blocks) ==
    IF blocks = <<>> THEN EmptyDict
    ELSE (Head(blocks).addr :> Head(blocks)) @@ TableOfBlocks(Tail(blocks))

RECURSIVE TableOfNodes(_)
TableOfNodes(nodes) ==
    IF nodes = <<>> THEN EmptyDict
    ELSE (Head(nodes).addr :> Head(nodes))
         @@ TableOfBlocks(Head(nodes).inputs.items)
         @@ TableOfBlocks(Head(nodes).outputs.items)
         @@ TableOfNodes(Tail(nodes))

TreeOf(material_block) ==
    FirstPointer(material_block, <<"nodetree", "node_tree">>)

RECURSIVE TableOfMaterials(_)
TableOfMaterials(materials) ==
    IF materials = <<>> THEN EmptyDict
    ELSE (IF TreeOf(Head(materials)) # None
          THEN TableOfNodes(The(TreeOf(Head(materials))).block.nodes.items)
          ELSE EmptyDict)
         @@ TableOfMaterials(Tail(materials))

BlendFile(materials, other_blocks) ==
    [openable |-> TRUE, version |-> 402, file_subversion |-> 66,
     materials |-> materials,
     block_from_addr |-> TableOfMaterials(materials) @@ TableOfBlocks(other_blocks)]

\* sequences over S of length at most n
SeqUpTo(S, n) == UNION {[1..k -> S] : k \in 0..n}

NodeAddr(k, i) == 100 * k + 10 * i
InputAddr(k, i, j) == NodeAddr(k, i) + j
OutputAddr(k, i, j) == NodeAddr(k, i) + 5 + j
LinkAddr(k, l) == 100 * k + 90 + l
TreeAddr(k) == 100 * k + 1
MaterialAddr(k) == 100 * k + 2

(* Node family: one material whose tree has up to MaxNodes nodes, each an     *)
(* output node without or with the do-output bit or another node (muted, and  *)
(* carrying the same bit), with one input and one output socket, and no link. *)
NodeKinds == {"out", "out_do", "other"}

KindNode(k, i, kind) ==
    RawNode(NodeAddr(k, i),
            IF kind = "other" THEN "ShaderNodeBsdfDiffuse" ELSE OutputMaterial,
            CASE kind = "out" -> 0 [] kind = "out_do" -> 64 [] OTHER -> 72,
            << RawSocket(InputAddr(k, i, 1), tSurface, tSurface, 1) >>,
            << RawSocket(OutputAddr(k, i, 1), tBSDF, tBSDF, 2) >>)

\* a link end: 0 is null, Dangling dangles, i is node i
EndNode(k, e) == IF e \in {0, Dangling} THEN e ELSE NodeAddr(k, e)
FromSock(k, e) == IF e \in {0, Dangling} THEN e ELSE OutputAddr(k, e, 1)
ToSock(k, e) == IF e \in {0, Dangling} THEN e ELSE InputAddr(k, e, 1)

EndLinks(k, ends) ==
    [l \in DOMAIN ends |->
        RawLink(LinkAddr(k, l), EndNode(k, ends[l][1]), FromSock(k, ends[l][1]),
                EndNode(k, ends[l][2]), ToSock(k, ends[l][2]))]

OneMaterial(nodes, link_items) ==
    BlendFile(<< RawMaterial(MaterialAddr(1),
                             PointerTo(RawTree(TreeAddr(1), nodes, link_items)),
                             NullPointer) >>, <<>>)

NodeFiles ==
    { OneMaterial([i \in DOMAIN kinds |-> KindNode(1, i, kinds[i])], <<>>) :
        kinds \in SeqUpTo(NodeKinds, MaxNodes) }

(* Link family: two nodes (a shader node before an output node, or two output *)
(* nodes of which the second is flagged) and up to MaxLinks links, each from  *)
(* the output socket of a node, from null or from a dangling address, to the  *)
(* input socket of a node or to null.                                         *)
LinkedKinds == { <<"other", "out">>, <<"out", "out_do">> }

LinkEnds == {1, 2, 0, Dangling} \X {1, 2, 0}

LinkFiles ==
    { OneMaterial([i \in DOMAIN kinds |-> KindNode(1, i, kinds[i])], EndLinks(1, ends)) :
        <<kinds, ends>> \in LinkedKinds \X SeqUpTo(LinkEnds, MaxLinks) }

(* Text family: a shader node feeding an output node whose first input socket *)
(* takes its identifier and name from small sets (empty, blank, padded,       *)
(* upper-case) beside a second input socket "Volume".                         *)
Identifiers ==
    { tSurface, <<>>, <<" ">>, <<" ">> \o tSurface, <<"V","O","L","U","M","E">> }
Names == { tSurface, <<>>, tSurface \o <<" ">> }

TextNodes(identifier, name) ==
    << RawNode(NodeAddr(1, 1), "ShaderNodeBsdfDiffuse", 0, <<>>,
               << RawSocket(OutputAddr(1, 1, 1), tColor, tColor, 2) >>),
       RawNode(NodeAddr(1, 2), OutputMaterial, 0,
               << RawSocket(InputAddr(1, 2, 1), identifier, name, 1),
                  RawSocket(InputAddr(1, 2, 2), tVolume, tVolume, 1) >>,
               <<>>) >>

TextLinks(ends) ==
    [l \in DOMAIN ends |->
        RawLink(LinkAddr(1, l), EndNode(1, ends[l][1]), FromSock(1, ends[l][1]),
                NodeAddr(1, 2), InputAddr(1, 2, ends[l][2]))]

TextFiles ==
    { OneMaterial(TextNodes(identifier, name), TextLinks(ends)) :
        <<identifier, name, ends>> \in
            Identifiers \X Names \X SeqUpTo({1, Dangling} \X {1, 2}, MaxLinks) }

(* Materials family: up to MaxMaterials materials; each without a blend       *)
(* method, with a known or with an unknown one; without node tree, or with a  *)
(* tree of one node that carries enum-coded settings, found under the first   *)
(* or the second pointer name.                                                *)
ColorBandStop(pos) ==
    [has |-> {"pos", "r", "g", "b", "a"}, pos |-> pos, r |-> pos, g |-> 0, b |-> 1, a |-> 1]

SettingNode(k, choice) ==
    LET node(idname) == RawNode(NodeAddr(k, 1), idname, 0, <<>>, <<>>)
    IN  CASE choice = "toon0" -> node("ShaderNodeBsdfToon")
          [] choice = "toon5" -> [node("ShaderNodeBsdfToon") EXCEPT !.custom1 = 5]
          [] choice = "mixrgb19" ->
                [node("ShaderNodeMixRGB") EXCEPT !.custom1 = 19, !.custom2 = 1]
          [] choice = "mix2" ->
                [node("ShaderNodeMix") EXCEPT !.storage =
                    PointerTo([dna_type_name |-> "NodeShaderMix",
                               has |-> {"blend_type", "clamp_result", "clamp_factor"},
                               blend_type |-> 2, clamp_result |-> 0, clamp_factor |-> 1])]
          [] OTHER ->
                [node("ShaderNodeValToRGB") EXCEPT !.storage =
                    PointerTo([dna_type_name |-> "ColorBand",
                               has |-> {"ipotype", "color_mode", "ipotype_hue", "tot", "data"},
                               ipotype |-> 9, color_mode |-> 0, ipotype_hue |-> 0,
                               tot |-> 2,
                               data |-> << ColorBandStop(0), ColorBandStop(1),
                                           ColorBandStop(2) >>])]

MaterialChoices ==
    { <<"absent", <<"none", "toon0">>>>, <<"unknown", <<"none", "toon0">>>>,
      <<"known", <<"second", "toon5">>>>, <<"absent", <<"first", "toon0">>>>,
      <<"unknown", <<"first", "ramp9">>>>, <<"known", <<"first", "mixrgb19">>>>,
      <<"unknown", <<"first", "mix2">>>> }

ChoiceMaterial(k, choice) ==
    LET tree == PointerTo(RawTree(TreeAddr(k), << SettingNode(k, choice[2][2]) >>, <<>>))
        m == RawMaterial(MaterialAddr(k),
                         CASE choice[2][1] = "first" -> tree
                           [] choice[2][1] = "second" -> RaisingPointer
                           [] OTHER -> NullPointer,
                         CASE choice[2][1] = "second" -> tree
                           [] choice[2][1] = "first" -> NullPointer
                           [] OTHER -> RaisingPointer)
    IN  CASE choice[1] = "absent" -> [m EXCEPT !.has = @ \ {"blend_method"}]
          [] choice[1] = "known" -> [m EXCEPT !.blend_method = 3, !.blend_flag = 64]
          [] OTHER -> [m EXCEPT !.blend_method = 7]

MaterialFiles ==
    { BlendFile([k \in DOMAIN choices |-> ChoiceMaterial(k, choices[k])], <<>>) :
        choices \in SeqUpTo(MaterialChoices, MaxMaterials) }

(* Failure family: a material with an unknown blend method whose tree links a  *)
(* shader node to an output node, with one read that fails: a field the       *)
(* struct does not carry, a pointer that does not resolve, a list whose walk  *)
(* raises, an address owned by a block of another kind.                       *)
FailureModes ==
    {"none", "node_no_idname", "node_no_label", "socket_no_identifier",
     "linked_socket_no_name", "inputs_dangling", "outputs_raise", "nodes_dangling",
     "links_dangling", "nodes_raise", "id_not_id", "tree_no_id", "unopenable",
     "second_input_no_name"}

FailureFile(mode) ==
    LET in1 == RawSocket(InputAddr(1, 1, 1), tColor, tColor, 1)
        out1 == RawSocket(OutputAddr(1, 1, 1), tBSDF, tBSDF, 2)
        in2 == RawSocket(InputAddr(1, 2, 1), tSurface, tSurface, 1)
        in1m == IF mode = "socket_no_identifier"
                THEN [in1 EXCEPT !.has = @ \ {"identifier"}] ELSE in1
        out1m == IF mode = "linked_socket_no_name"
                 THEN [out1 EXCEPT !.has = @ \ {"name"}] ELSE out1
        in1b == [RawSocket(InputAddr(1, 1, 2), tVolume, tVolume, 1)
                    EXCEPT !.has = @ \ {"name"}]
        n1 == RawNode(NodeAddr(1, 1), "ShaderNodeBsdfToon", 0,
                      IF mode = "second_input_no_name" THEN <<in1m, in1b>> ELSE <<in1m>>,
                      <<out1m>>)
        n2 == RawNode(NodeAddr(1, 2), OutputMaterial, 64, <<in2>>, <<>>)
        n1m == CASE mode = "node_no_idname" -> [n1 EXCEPT !.has = @ \ {"idname"}]
                 [] mode = "node_no_label" -> [n1 EXCEPT !.has = @ \ {"label"}]
                 [] mode = "outputs_raise" ->
                        [n1 EXCEPT !.outputs = [@ EXCEPT !.st = "raise"]]
                 [] mode = "id_not_id" -> [n1 EXCEPT !.id = InputAddr(1, 2, 1)]
                 [] OTHER -> n1
        n2m == IF mode = "inputs_dangling"
               THEN [n2 EXCEPT !.inputs = [@ EXCEPT !.dangling = TRUE]] ELSE n2
        link == RawLink(LinkAddr(1, 1), NodeAddr(1, 1), OutputAddr(1, 1, 1),
                        NodeAddr(1, 2), InputAddr(1, 2, 1))
        tree == RawTree(TreeAddr(1), <<n1m, n2m>>, <<link>>)
        treem == CASE mode = "nodes_dangling" ->
                        [tree EXCEPT !.nodes = [@ EXCEPT !.dangling = TRUE]]
                   [] mode = "links_dangling" ->
                        [tree EXCEPT !.links = [@ EXCEPT !.dangling = TRUE]]
                   [] mode = "nodes_raise" ->
                        [tree EXCEPT !.nodes = [@ EXCEPT !.st = "raise"]]
                   [] mode = "tree_no_id" -> [tree EXCEPT !.id_name = None]
                   [] OTHER -> tree
        f == BlendFile(<< [RawMaterial(MaterialAddr(1), PointerTo(treem), NullPointer)
                              EXCEPT !.blend_method = 7] >>,
                       <<>>)
    IN  IF mode = "unopenable" THEN [f EXCEPT !.openable = FALSE] ELSE f

FailureFiles == { FailureFile(mode) : mode \in FailureModes }

(* Sparse family: a material whose tree links a shader node to an output     *)
(* node, where the shader node's struct lacks some of type, width and height, *)
(* or stores a zero size, and where (lean) the link carries no flag, the      *)
(* material no alpha threshold and the sockets neither type nor direction.    *)
(* Every read concerned has a default in the code.                            *)
SparseNodeHas == { NodeFields \ S : S \in SUBSET {"type", "width", "height"} }

SparseFile(node_has, width, height, lean) ==
    LET less(block, S) == IF lean THEN [block EXCEPT !.has = @ \ S] ELSE block
        out1 == less(RawSocket(OutputAddr(1, 1, 1), tBSDF, tBSDF, 2), {"type", "in_out"})
        in2 == less(RawSocket(InputAddr(1, 2, 1), tSurface, tSurface, 1), {"type", "in_out"})
        n1 == [RawNode(NodeAddr(1, 1), "ShaderNodeBsdfToon", 0, <<>>, <<out1>>)
                  EXCEPT !.has = node_has, !.width = width, !.height = height]
        n2 == RawNode(NodeAddr(1, 2), OutputMaterial, 64, <<in2>>, <<>>)
        link == less(RawLink(LinkAddr(1, 1), NodeAddr(1, 1), OutputAddr(1, 1, 1),
                             NodeAddr(1, 2), InputAddr(1, 2, 1)), {"flag"})
        tree == RawTree(TreeAddr(1), <<n1, n2>>, <<link>>)
    IN  BlendFile(<< less(RawMaterial(MaterialAddr(1), PointerTo(tree), NullPointer),
                          {"alpha_threshold"}) >>, <<>>)

SparseFiles ==
    { SparseFile(node_has, width, height, lean) :
        node_has \in SparseNodeHas, width \in {0, 140}, height \in {0, 100},
        lean \in BOOLEAN }

(* Ramp family: a gradient-ramp node that feeds an output node; its ColorBand *)
(* holds n stops, from none to MaxStops, in an array of MaxStops + 1 slots    *)
(* whose positions are not sorted; (lean) the stop struct carries no alpha.   *)
MaxStops == 3

RampFile(n, lean) ==
    LET stop(pos) == IF lean THEN [ColorBandStop(pos) EXCEPT !.has = @ \ {"a"}, !.a = 0]
                     ELSE ColorBandStop(pos)
        ramp == [RawNode(NodeAddr(1, 1), "ShaderNodeValToRGB", 0, <<>>,
                         << RawSocket(OutputAddr(1, 1, 1), tColor, tColor, 2) >>)
                    EXCEPT !.storage =
                        PointerTo([dna_type_name |-> "ColorBand",
                                   has |-> {"ipotype", "color_mode", "ipotype_hue",
                                            "tot", "data"},
                                   ipotype |-> 0, color_mode |-> 0, ipotype_hue |-> 0,
                                   tot |-> n,
                                   data |-> [j \in 1..(MaxStops + 1) |->
                                                stop((2 * j) % (MaxStops + 2))]])]
        out == RawNode(NodeAddr(1, 2), OutputMaterial, 64,
                       << RawSocket(InputAddr(1, 2, 1), tSurface, tSurface, 1) >>, <<>>)
    IN  OneMaterial(<< ramp, out >>,
                    << RawLink(LinkAddr(1, 1), NodeAddr(1, 1), OutputAddr(1, 1, 1),
                               NodeAddr(1, 2), InputAddr(1, 2, 1)) >>)

(* A tree with a link whose two ends are the same socket (the input socket of *)
(* the output node), after an ordinary link into that socket.                 *)
LoopFile ==
    OneMaterial(<< KindNode(1, 1, "other"), KindNode(1, 2, "out") >>,
                << RawLink(LinkAddr(1, 1), NodeAddr(1, 1), OutputAddr(1, 1, 1),
                           NodeAddr(1, 2), InputAddr(1, 2, 1)),
                   RawLink(LinkAddr(1, 2), NodeAddr(1, 2), InputAddr(1, 2, 1),
                           NodeAddr(1, 2), InputAddr(1, 2, 1)) >>)

IsFile(f) ==
    \/ \E n \in 0..MaxStops, lean \in BOOLEAN : f = RampFile(n, lean)
    \/ f = LoopFile
    \/ f \in SparseFiles
    \/ f \in NodeFiles
    \/ f \in LinkFiles
    \/ f \in TextFiles
    \/ f \in MaterialFiles
    \/ f \in FailureFiles

-----------------------------------------------------------------------------
(* The run: main, _build_export_payload and the passes it drives *)

Clock == {"2026-01-01T00:00:00+00:00", "2026-01-01T00:00:01+00:00"}

IdleRun ==
    /\ warnings = <<>>
    /\ mi = 1
    /\ material_entries = <<>>
    /\ entry = None
    /\ node_tree = None
    /\ li = 1
    /\ ni = 1
    /\ linked_socket_ptrs = {}
    /\ link_counts = EmptyDict
    /\ links = <<>>
    /\ all_nodes = <<>>
    /\ non_gltf_nodes = <<>>
    /\ output_node_flags = EmptyDict
    /\ payload = None
    /\ fs = [out_dir |-> FALSE, json |-> None]

Init ==
    /\ IsFile(file)
    /\ pc = "start"
    /\ IdleRun
    /\ arg = None
    /\ ret = None

treeVars == <<entry, node_tree, li, ni, linked_socket_ptrs, link_counts, links,
              all_nodes, non_gltf_nodes, output_node_flags>>

\* main: _resolve_output_json_path creates the output directory
ResolveOutputJsonPath ==
    /\ pc = "start"
    /\ fs' = [fs EXCEPT !.out_dir = TRUE]
    /\ pc' = "open"
    /\ UNCHANGED <<file, warnings, mi, material_entries, treeVars, payload, arg, ret>>

\* main: the sink of a run that kept the list of an earlier run
EmptySinkKept(earlier) == earlier

\* main: warnings = [], a new list whatever an earlier run left behind
EmptySink(earlier) == <<>>

\* main: blendfile.open_cached, then the empty sink
OpenCached ==
    /\ pc = "open"
    /\ pc' = IF file.openable THEN "materials" ELSE "fatal"
    /\ warnings' = EmptySink(warnings)
    /\ UNCHANGED <<file, mi, material_entries, treeVars, payload, fs, arg, ret>>

\* the exception of a recoverable condition leaves main: nothing is written
Abort ==
    /\ pc' = "aborted"
    /\ UNCHANGED <<mi, material_entries, payload, fs>>

\* the material blocks taken last first
FindBlocksReversed(blend_file) ==
    [i \in DOMAIN blend_file.materials |->
        blend_file.materials[Len(blend_file.materials) + 1 - i]]

\* blend_file.find_blocks_from_code(b"MA"): the material blocks as stored
FindBlocksFromCode(blend_file) == blend_file.materials

\* _build_material_entry, up to the call of _build_node_tree_entry
BuildMaterialEntry ==
    /\ pc = "materials"
    /\ mi <= Len(FindBlocksFromCode(file))
    /\ \E material_block \in {FindBlocksFromCode(file)[mi]} :
       \E tree_pointer \in {FirstPointer(material_block, <<"nodetree", "node_tree">>)} :
       \E head \in {MaterialEntryHead(material_block, tree_pointer, warnings)} :
           /\ warnings' = head.warnings
           /\ IF tree_pointer = None
              THEN /\ material_entries' = Append(material_entries, head.entry)
                   /\ mi' = mi + 1
                   /\ UNCHANGED <<pc, treeVars, payload, fs>>
              ELSE IF BlockIdName(The(tree_pointer).block) = None
              THEN /\ Abort
                   /\ UNCHANGED treeVars
              ELSE /\ entry' = head.entry
                   /\ node_tree' = tree_pointer
                   /\ pc' = "links"
                   /\ li' = 1
                   /\ ni' = 1
                   /\ linked_socket_ptrs' = {}
                   /\ link_counts' = EmptyDict
                   /\ links' = <<>>
                   /\ all_nodes' = <<>>
                   /\ non_gltf_nodes' = <<>>
                   /\ output_node_flags' = EmptyDict
                   /\ UNCHANGED <<mi, material_entries, payload, fs>>
    /\ UNCHANGED <<file, arg, ret>>

LinkWalk == IterListbase(FirstPointer(The(node_tree).block, <<"links">>))
NodeWalk == IterListbase(FirstPointer(The(node_tree).block, <<"nodes">>))

\* _collect_links: one turn of the loop
CollectLinksStep ==
    /\ pc = "links"
    /\ li <= Len(LinkWalk.items)
    /\ \E link \in {LinkWalk.items[li]} :
       \E agg \in {CollectLink(link, [linked_socket_ptrs |-> linked_socket_ptrs,
                                      link_counts |-> link_counts])} :
       \E serialized \in {ExtractLink(link, file)} :
           /\ linked_socket_ptrs' = agg.linked_socket_ptrs
           /\ link_counts' = agg.link_counts
           /\ IF serialized = Exc
              THEN /\ Abort
                   /\ UNCHANGED <<links, li>>
              ELSE /\ links' = Append(links, serialized)
                   /\ li' = li + 1
                   /\ UNCHANGED <<pc, mi, material_entries, payload, fs>>
    /\ UNCHANGED <<file, warnings, entry, node_tree, ni, all_nodes, non_gltf_nodes,
                   output_node_flags, arg, ret>>

\* the node pass is entered whether or not the walk of the links has ended
CollectLinksEndEarly ==
    /\ pc = "links"
    /\ pc' = "nodes"
    /\ UNCHANGED <<file, warnings, mi, material_entries, treeVars, payload, fs, arg, ret>>

\* _collect_links: the walk ends (or raises) and the aggregates are returned
CollectLinksEnd ==
    /\ pc = "links"
    /\ li > Len(LinkWalk.items)
    /\ IF LinkWalk.dangling
       THEN Abort
       ELSE /\ pc' = "nodes"
            /\ UNCHANGED <<mi, material_entries, payload, fs>>
    /\ UNCHANGED <<file, warnings, treeVars, arg, ret>>

\* _collect_nodes: one turn of the loop
CollectNodesStep ==
    /\ pc = "nodes"
    /\ ni <= Len(NodeWalk.items)
    /\ \E r \in {ExtractNode(NodeWalk.items[ni], file, linked_socket_ptrs, link_counts,
                               warnings)} :
           IF r = Exc
           THEN /\ Abort
                /\ UNCHANGED <<warnings, ni, all_nodes, non_gltf_nodes, output_node_flags>>
           ELSE /\ warnings' = r.warnings
                /\ all_nodes' = Append(all_nodes, r.node_data)
                /\ output_node_flags' =
                       IF r.node_data.idname = OutputMaterial /\ r.node_data.ptr # 0
                       THEN Put(output_node_flags, r.node_data.ptr, r.node_flag)
                       ELSE output_node_flags
                /\ non_gltf_nodes' =
                       IF r.node_data.idname \in DOMAIN NON_GLTF_IDNAMES
                       THEN Append(non_gltf_nodes, NonGltfEntry(r.node_data))
                       ELSE non_gltf_nodes
                /\ ni' = ni + 1
                /\ UNCHANGED <<pc, mi, material_entries, payload, fs>>
    /\ UNCHANGED <<file, entry, node_tree, li, linked_socket_ptrs, link_counts, links,
                   arg, ret>>

\* the walk of the nodes ends (or raises); the rest of _build_node_tree_entry
\* and of _build_material_entry
FinishNodeTree ==
    /\ pc = "nodes"
    /\ ni > Len(NodeWalk.items)
    /\ IF NodeWalk.dangling
       THEN /\ Abort
            /\ UNCHANGED treeVars
       ELSE /\ material_entries' =
                   Append(material_entries,
                          Put(entry, "node_tree",
                              BuildNodeTreeEntry(The(node_tree).block, links, all_nodes,
                                                 non_gltf_nodes, output_node_flags)))
            /\ mi' = mi + 1
            /\ pc' = "materials"
            /\ entry' = None
            /\ node_tree' = None
            /\ UNCHANGED <<li, ni, linked_socket_ptrs, link_counts, links, all_nodes,
                           non_gltf_nodes, output_node_flags, payload, fs>>
    /\ UNCHANGED <<file, warnings, arg, ret>>

\* _build_export_payload returns the payload
BuildExportPayload ==
    /\ pc = "materials"
    /\ mi > Len(FindBlocksFromCode(file))
    /\ \E now \in Clock :
          payload' = Some([schema_version |-> SCHEMA_VERSION,
                           blender_version |-> BlenderVersionString(file),
                           exported_at |-> now,
                           blend |-> "scene.blend",
                           warnings |-> WarningsField(<<>>, warnings),
                           materials |-> material_entries])
    /\ pc' = "built"
    /\ UNCHANGED <<file, warnings, mi, material_entries, treeVars, fs, arg, ret>>

\* main: out_path.write_text(json.dumps(export_payload, indent=2))
WriteText ==
    /\ pc = "built"
    /\ fs' = [fs EXCEPT !.json = payload]
    /\ pc' = "done"
    /\ UNCHANGED <<file, warnings, mi, material_entries, treeVars, payload, arg, ret>>

Next ==
    \/ ResolveOutputJsonPath
    \/ OpenCached
    \/ BuildMaterialEntry
    \/ CollectLinksStep
    \/ CollectLinksEnd
    \/ CollectNodesStep
    \/ FinishNodeTree
    \/ BuildExportPayload
    \/ WriteText

Spec == Init /\ [][Next]_vars

-----------------------------------------------------------------------------
(* The program run a second time on the same file: main starts again with new *)
(* locals; the filesystem is what the first run left; `ret` keeps how the     *)
(* first run ended and the payload it built                                   *)

Rerun ==
    /\ pc \in {"done", "aborted", "fatal"}
    /\ ret = None
    /\ ret' = Some([outcome |-> pc, payload |-> payload])
    /\ pc' = "start"
    /\ mi' = 1
    /\ material_entries' = <<>>
    /\ entry' = None
    /\ node_tree' = None
    /\ li' = 1
    /\ ni' = 1
    /\ linked_socket_ptrs' = {}
    /\ link_counts' = EmptyDict
    /\ links' = <<>>
    /\ all_nodes' = <<>>
    /\ non_gltf_nodes' = <<>>
    /\ output_node_flags' = EmptyDict
    /\ payload' = None
    /\ UNCHANGED <<file, warnings, fs, arg>>

NextTwice ==
    \/ Next
    \/ Rerun

SpecTwice == Init /\ [][NextTwice]_vars

-----------------------------------------------------------------------------
(* enum_or_unknown on its own: the call on every argument of a bounded set *)

MaxCode == 20       \* enum codes run from -1 to MaxCode
MaxSink == 2        \* diagnostics already in the sink at the call

Codes == (0 - 1)..MaxCode

EnumTables ==
    {BLEND_METHOD_MAP, TOON_COMPONENT_MAP, MIX_BLEND_TYPE_MAP,
     COLOR_RAMP_INTERPOLATION_MAP, COLOR_RAMP_HUE_MAP, COLOR_RAMP_COLOR_MODE_MAP}

EnumLabels == {"Material.blend_method", "Mix.blend_type"}

EarlierDiagnostics == {"Unknown Material.blend_method enum value: 7", "earlier"}

InitEnum ==
    /\ pc = "enum_or_unknown"
    /\ IdleRun
    /\ file = None
    /\ arg \in [code : Codes, mapping : EnumTables, enum_name : EnumLabels,
                sink : SeqUpTo(EarlierDiagnostics, MaxSink)]
    /\ ret = None

CallEnumOrUnknown ==
    /\ pc = "enum_or_unknown"
    /\ ret' = EnumOrUnknown(arg.code, arg.mapping, arg.enum_name, arg.sink)
    /\ pc' = "enum_returned"
    /\ UNCHANGED <<file, warnings, mi, material_entries, treeVars, payload, fs, arg>>

NextEnum == CallEnumOrUnknown

SpecEnum == InitEnum /\ [][NextEnum]_vars

-----------------------------------------------------------------------------
(* extract_socket on its own: sockets with and without name, identifier, type *)
(* and default_value sub-record, the sub-record with any subset of its fields *)

DefaultFields ==
    {"value", "min", "max", "soft_min", "soft_max", "softmin", "softmax", "subtype"}

DefaultBlock(has) ==
    [has |-> has, value |-> 0, min |-> 0 - 1, max |-> 1, soft_min |-> 0, soft_max |-> 2,
     softmin |-> 3, softmax |-> 4, subtype |-> 15]

DefaultPointers ==
    {NullPointer, RaisingPointer} \cup {PointerTo(DefaultBlock(has)) : has \in SUBSET DefaultFields}

SocketHas ==
    {SocketFields, SocketFields \ {"identifier"}, SocketFields \ {"name"},
     SocketFields \ {"type", "in_out"}}

Sockets ==
    { [RawSocket(InputAddr(1, 1, 1), tColor, tColor, 1)
          EXCEPT !.has = has, !.default_value = pointer] :
        has \in SocketHas, pointer \in DefaultPointers }

Aggregates ==
    { [linked_socket_ptrs |-> {}, link_counts |-> EmptyDict],
      [linked_socket_ptrs |-> {InputAddr(1, 1, 1)},
       link_counts |-> (InputAddr(1, 1, 1) :> 2)] }

InitSocket ==
    /\ pc = "extract_socket"
    /\ IdleRun
    /\ file = None
    /\ arg \in [sock : Sockets, agg : Aggregates]
    /\ ret = None

CallExtractSocket ==
    /\ pc = "extract_socket"
    /\ ret' = ExtractSocket(arg.sock, arg.agg.linked_socket_ptrs, arg.agg.link_counts)
    /\ pc' = "socket_returned"
    /\ UNCHANGED <<file, warnings, mi, material_entries, treeVars, payload, fs, arg>>

NextSocket == CallExtractSocket

SpecSocket == InitSocket /\ [][NextSocket]_vars

-----------------------------------------------------------------------------
(* extract_socket on sockets that differ in their type (absent, or a code up  *)
(* to MaxType) and in the subtype code of their default_value sub-record (no  *)
(* sub-record, no code, or a code from -1 to MaxSubtype)                      *)

MaxType == 4
MaxSubtype == 17

SubtypeSockets ==
    { [RawSocket(InputAddr(1, 1, 1), tColor, tColor, 1)
          EXCEPT !.has = has, !.type = type, !.default_value = pointer] :
        has \in {SocketFields, SocketFields \ {"type"}},
        type \in 0..MaxType,
        pointer \in {NullPointer, PointerTo(DefaultBlock({"value"}))}
                    \cup { PointerTo([DefaultBlock({"value", "subtype"})
                                         EXCEPT !.subtype = code]) :
                             code \in (0 - 1)..MaxSubtype } }

InitSubtype ==
    /\ pc = "extract_socket"
    /\ IdleRun
    /\ file = None
    /\ arg \in [sock : SubtypeSockets, agg : Aggregates]
    /\ ret = None

SpecSubtype == InitSubtype /\ [][NextSocket]_vars

-----------------------------------------------------------------------------
(* extract_material_settings on its own: a material block that carries any    *)
(* subset of the three fields, a blend method code up to MaxBlendMethod, two  *)
(* thresholds, a blend flag with and without the culling bit                  *)

MaxBlendMethod == 6

InitSettings ==
    /\ pc = "extract_material_settings"
    /\ IdleRun
    /\ file = None
    /\ arg \in [material_block :
                    { [RawMaterial(MaterialAddr(1), NullPointer, NullPointer)
                          EXCEPT !.has = has, !.blend_method = code,
                                 !.alpha_threshold = alpha, !.blend_flag = flag] :
                        has \in SUBSET MaterialFields, code \in 0..MaxBlendMethod,
                        alpha \in {0, 1},
                        flag \in {0, 1, MA_BL_CULL_BACKFACE, MA_BL_CULL_BACKFACE + 1} },
                sink : SeqUpTo({"earlier"}, 1)]
    /\ ret = None

CallExtractMaterialSettings ==
    /\ pc = "extract_material_settings"
    /\ ret' = ExtractMaterialSettings(arg.material_block, arg.sink)
    /\ pc' = "settings_returned"
    /\ UNCHANGED <<file, warnings, mi, material_entries, treeVars, payload, fs, arg>>

SpecSettings == InitSettings /\ [][CallExtractMaterialSettings]_vars

-----------------------------------------------------------------------------
(* ptr_to_ref on its own: an address table of two blocks, each an ID block    *)
(* (image, material, node tree, a bare prefix) or a block that is no ID, and  *)
(* an address that is null, owned, or without owner                           *)

RefBlocks ==
    { [id_name |-> Some(name)] :
        name \in { <<"I","M","t","e","x">>, <<"I","M">>, <<"M","A","M","a","t">>,
                   <<"N","T","S","h","a","d","e","r">>, <<"O","B","I","M">> } }
    \cup { RawSocket(0, tColor, tColor, 1) }

RefFiles ==
    { [block_from_addr |-> (10 :> b1) @@ (20 :> b2)] : b1 \in RefBlocks, b2 \in RefBlocks }

InitRef ==
    /\ pc = "ptr_to_ref"
    /\ IdleRun
    /\ file = None
    /\ arg \in [blend_file : RefFiles, ptr : {0, 10, 20, Dangling}]
    /\ ret = None

CallPtrToRef ==
    /\ pc = "ptr_to_ref"
    /\ ret' = PtrToRef(arg.blend_file, arg.ptr)
    /\ pc' = "ref_returned"
    /\ UNCHANGED <<file, warnings, mi, material_entries, treeVars, payload, fs, arg>>

NextRef == CallPtrToRef

SpecRef == InitRef /\ [][NextRef]_vars

-----------------------------------------------------------------------------
(* Reading the payload and the file it was made from *)

Range(f) == { f[i] : i \in DOMAIN f }
Minimum(S) == CHOOSE x \in S : \A y \in S : x <= y
Maximum(S) == CHOOSE x \in S : \A y \in S : x >= y

\* the material entries of the payload (none before the payload exists)
Materials == IF payload = None THEN <<>> ELSE The(payload).materials

\* the indices of the material entries that carry a node tree
WithTree == { m \in DOMAIN Materials : "node_tree" \in DOMAIN Materials[m] }

NodesOf(tree) == IF "nodes" \in DOMAIN tree THEN tree.nodes ELSE <<>>
LinksOf(tree) == IF "links" \in DOMAIN tree THEN tree.links ELSE <<>>
TargetsOf(tree) == IF "output_targets" \in DOMAIN tree THEN tree.output_targets ELSE EmptyDict

\* the decoded sockets of a node tree of the payload
SocketsOf(tree) ==
    UNION { Range(NodesOf(tree)[n].inputs) \cup Range(NodesOf(tree)[n].outputs) :
            n \in DOMAIN NodesOf(tree) }

\* the node records the walk of the tree behind material m yields, in order
SourceNodes(m) ==
    IterListbase(FirstPointer(The(TreeOf(file.materials[m])).block, <<"nodes">>)).items

\* does link `l` of the payload end at socket address ptr
Touches(l, ptr) ==
    \/ l.from_socket # None /\ The(l.from_socket).ptr = ptr
    \/ l.to_socket # None /\ The(l.to_socket).ptr = ptr

\* the indices of the links of `tree` that enter the node at address ptr
LinksInto(tree, ptr) ==
    { i \in DOMAIN LinksOf(tree) :
        LinksOf(tree)[i].to_node # None /\ The(LinksOf(tree)[i].to_node).ptr = ptr }

\* identifier, or name when the identifier is empty; stripped and lower-cased
KeyOf(l) ==
    IF l.to_socket = None THEN <<>>
    ELSE Lower(Strip(IF The(l.to_socket).identifier # <<>>
                     THEN The(l.to_socket).identifier
                     ELSE The(l.to_socket).name))

\* the upstream end of a link: the address and the identifier, null if unresolved
Upstream(l) ==
    [from_node_ptr |-> IF l.from_node = None THEN None ELSE Some(The(l.from_node).ptr),
     from_socket_identifier |->
        IF l.from_socket = None THEN None ELSE Some(The(l.from_socket).identifier)]

-----------------------------------------------------------------------------
(* C1 *)

\* C1: for every material entry in the payload, the key node_tree is present
\* if and only if has_nodes is true.
C1_NodeTreeIffHasNodes ==
    \A m \in DOMAIN Materials :
        ("node_tree" \in DOMAIN Materials[m]) <=> Materials[m].has_nodes

\* a payload with a material that has a node tree and one that has none
C1_Witness ==
    /\ pc = "done"
    /\ \E m1, m2 \in DOMAIN Materials :
        /\ Materials[m1].has_nodes /\ "node_tree" \in DOMAIN Materials[m1]
        /\ ~Materials[m2].has_nodes /\ "node_tree" \notin DOMAIN Materials[m2]

-----------------------------------------------------------------------------
(* C2 *)

\* C2: in every node tree of the payload the active output is the first node
\* of the walk, among those of type ShaderNodeOutputMaterial, whose raw flag
\* has bit 64 set; if none has it, the first node of that type; and
\* active_output is omitted when the tree has no node of that type.
C2_ActiveOutputChoice ==
    \A m \in WithTree :
        LET raw == SourceNodes(m)
            outs == { i \in DOMAIN raw : raw[i].idname = OutputMaterial }
            flagged == { i \in outs : BitSet(Get(raw[i], "flag", 0), NODE_DO_OUTPUT_BIT) }
            tree == Materials[m].node_tree
        IN  IF outs = {}
            THEN "active_output" \notin DOMAIN tree
            ELSE /\ "active_output" \in DOMAIN tree
                 /\ tree.active_output.node_ptr =
                        raw[Minimum(IF flagged # {} THEN flagged ELSE outs)].addr

\* a payload whose tree has two material-output nodes, the second one flagged
\* and chosen, and one whose tree has two unflagged ones, the first chosen
C2_Witness ==
    /\ pc = "done"
    /\ \E m \in WithTree :
        /\ Len(SourceNodes(m)) = 2
        /\ \A i \in 1..2 : SourceNodes(m)[i].idname = OutputMaterial
        /\ ~BitSet(SourceNodes(m)[1].flag, NODE_DO_OUTPUT_BIT)
        /\ BitSet(SourceNodes(m)[2].flag, NODE_DO_OUTPUT_BIT)
        /\ Materials[m].node_tree.active_output.node_ptr = SourceNodes(m)[2].addr

-----------------------------------------------------------------------------
(* C3 *)

\* C3 (as the code behaves): output_targets has exactly the non-empty keys of
\* the links that enter the active output node, and under each key the
\* upstream end (node address and socket identifier, null where the link's
\* source does not resolve) of the last such link in the order of the links;
\* links to other nodes, and links whose key is empty, contribute nothing.
C3_OutputTargetsLastLink ==
    \A m \in WithTree :
        LET tree == Materials[m].node_tree
            targets == TargetsOf(tree)
        IN  IF "active_output" \notin DOMAIN tree
            THEN DOMAIN targets = {}
            ELSE LET into == LinksInto(tree, tree.active_output.node_ptr)
                     keys == { KeyOf(LinksOf(tree)[i]) : i \in into } \ { <<>> }
                 IN  /\ DOMAIN targets = keys
                     /\ \A k \in keys :
                            targets[k] =
                                Upstream(LinksOf(tree)[
                                    Maximum({ i \in into : KeyOf(LinksOf(tree)[i]) = k })])

\* C3 (as stated): for every link that enters the active output node,
\* output_targets[k] is the upstream end of that link, k being the key of its
\* destination socket; links to other nodes contribute no entry.
C3_OutputTargetsEveryLink ==
    \A m \in WithTree :
        LET tree == Materials[m].node_tree
            targets == TargetsOf(tree)
        IN  "active_output" \in DOMAIN tree =>
                LET into == LinksInto(tree, tree.active_output.node_ptr)
                IN  /\ \A i \in into :
                          /\ KeyOf(LinksOf(tree)[i]) \in DOMAIN targets
                          /\ targets[KeyOf(LinksOf(tree)[i])] = Upstream(LinksOf(tree)[i])
                    /\ \A k \in DOMAIN targets :
                          \E i \in into : KeyOf(LinksOf(tree)[i]) = k

\* a payload in which two links with the same key and different sources enter
\* the active output node, and one in which a link with an empty key does
C3_Witness ==
    /\ pc = "done"
    /\ \E m \in WithTree :
        LET tree == Materials[m].node_tree
        IN  /\ "active_output" \in DOMAIN tree
            /\ \E i, j \in LinksInto(tree, tree.active_output.node_ptr) :
                /\ i < j
                /\ KeyOf(LinksOf(tree)[i]) = KeyOf(LinksOf(tree)[j])
                /\ KeyOf(LinksOf(tree)[i]) # <<>>
                /\ Upstream(LinksOf(tree)[i]) # Upstream(LinksOf(tree)[j])
                /\ TargetsOf(tree)[KeyOf(LinksOf(tree)[j])] = Upstream(LinksOf(tree)[j])

-----------------------------------------------------------------------------
(* C4 *)

\* C4: for every socket in the payload, link_count > 0 implies is_linked.
C4_CountedIsLinked ==
    \A m \in WithTree :
        \A socket \in SocketsOf(Materials[m].node_tree) :
            socket.link_count > 0 => socket.is_linked

\* a payload with a socket that two links touch and a socket that none does
C4_Witness ==
    /\ pc = "done"
    /\ \E m \in WithTree :
        \E s1, s2 \in SocketsOf(Materials[m].node_tree) :
            /\ s1.link_count = 2 /\ s1.is_linked
            /\ s2.link_count = 0 /\ ~s2.is_linked

-----------------------------------------------------------------------------
(* C5 *)

\* C5: for every socket in the payload with is_linked true, some link in the
\* links list of the same node tree has that socket's address as the ptr of
\* its from_socket or of its to_socket.
C5_LinkedHasLink ==
    \A m \in WithTree :
        \A socket \in SocketsOf(Materials[m].node_tree) :
            socket.is_linked =>
                \E i \in DOMAIN LinksOf(Materials[m].node_tree) :
                    Touches(LinksOf(Materials[m].node_tree)[i], socket.ptr)

\* a payload with a linked socket whose only link has an unresolved source
C5_Witness ==
    /\ pc = "done"
    /\ \E m \in WithTree :
        LET tree == Materials[m].node_tree
        IN  /\ Len(LinksOf(tree)) = 1
            /\ LinksOf(tree)[1].from_socket = None
            /\ \E socket \in SocketsOf(tree) :
                  socket.is_linked /\ Touches(LinksOf(tree)[1], socket.ptr)

-----------------------------------------------------------------------------
(* C6 *)

Placeholder(code) == "UNKNOWN_" \o ToString(code)
Diagnostic(label, code) == "Unknown " \o label \o " enum value: " \o ToString(code)

\* how many entries of a list of diagnostics are `text`
Count(list, text) == Cardinality({ i \in DOMAIN list : list[i] = text })

\* the enum-coded fields of one decoded node: where, label, decoded name, table
NodeEnumFields(m, n, node) ==
    IF "properties" \notin DOMAIN node THEN {}
    ELSE LET at(key) == <<m, n, key>>
             props == node.properties
         IN  CASE node.idname = "ShaderNodeBsdfToon" ->
                    { [at |-> at("component"), label |-> "ToonBSDF.component",
                       name |-> props.component, names |-> Range(TOON_COMPONENT_MAP)] }
               [] node.idname = "ShaderNodeMixRGB" ->
                    { [at |-> at("blend_type"), label |-> "MixRGB.blend_type",
                       name |-> props.blend_type, names |-> Range(MIX_BLEND_TYPE_MAP)] }
               [] node.idname = "ShaderNodeMix" ->
                    { [at |-> at("blend_type"), label |-> "Mix.blend_type",
                       name |-> props.blend_type, names |-> Range(MIX_BLEND_TYPE_MAP)] }
               [] node.idname = "ShaderNodeValToRGB" ->
                    { [at |-> at("interpolation"), label |-> "ColorRamp.interpolation",
                       name |-> props.ramp_settings.interpolation,
                       names |-> Range(COLOR_RAMP_INTERPOLATION_MAP)],
                      [at |-> at("color_mode"), label |-> "ColorRamp.color_mode",
                       name |-> props.ramp_settings.color_mode,
                       names |-> Range(COLOR_RAMP_COLOR_MODE_MAP)],
                      [at |-> at("hue_interpolation"),
                       label |-> "ColorRamp.hue_interpolation",
                       name |-> props.ramp_settings.hue_interpolation,
                       names |-> Range(COLOR_RAMP_HUE_MAP)] }
               [] OTHER -> {}

\* the enum-coded fields present in the payload
EnumFields ==
    UNION { (IF Materials[m].settings.blend_method # None
             THEN { [at |-> <<m, 0, "blend_method">>, label |-> "Material.blend_method",
                     name |-> The(Materials[m].settings.blend_method),
                     names |-> Range(BLEND_METHOD_MAP)] }
             ELSE {})
            \cup (IF m \in WithTree
                  THEN UNION { NodeEnumFields(m, n, NodesOf(Materials[m].node_tree)[n]) :
                               n \in DOMAIN NodesOf(Materials[m].node_tree) }
                  ELSE {}) :
            m \in DOMAIN Materials }

\* C6: every enum-coded field present in the payload holds a known name of
\* its enum or UNKNOWN_<code>, and in the latter case warnings holds exactly
\* one entry with that field's label and code (one for each field of the
\* payload that was decoded to this placeholder under this label).
C6_EnumFieldsWarnedOnce ==
    \A f \in EnumFields :
        \/ f.name \in f.names
        \/ \E code \in Codes :
              /\ f.name = Placeholder(code)
              /\ Count(The(payload).warnings, Diagnostic(f.label, code))
                    = Cardinality({ g \in EnumFields :
                                      g.label = f.label /\ g.name = f.name })

-----------------------------------------------------------------------------
(* C7 *)

\* C7: enum_or_unknown returns, for a code that is a key of the table, the
\* mapped name with the sink unchanged; for any other code, UNKNOWN_<code>
\* with exactly one diagnostic, naming the label and the code, appended to
\* the end of the sink and the earlier diagnostics unchanged.
C7_EnumOrUnknownContract ==
    pc = "enum_returned" =>
        IF arg.code \in DOMAIN arg.mapping
        THEN /\ ret.name = arg.mapping[arg.code]
             /\ ret.warnings = arg.sink
        ELSE /\ ret.name = Placeholder(arg.code)
             /\ Len(ret.warnings) = Len(arg.sink) + 1
             /\ SubSeq(ret.warnings, 1, Len(arg.sink)) = arg.sink
             /\ ret.warnings[Len(ret.warnings)] = Diagnostic(arg.enum_name, arg.code)

\* the call has returned for a code outside the table, on a non-empty sink
C7_Witness ==
    /\ pc = "enum_returned"
    /\ arg.code \notin DOMAIN arg.mapping
    /\ Len(arg.sink) = MaxSink
    /\ ret.name = Placeholder(arg.code)

-----------------------------------------------------------------------------
(* C8 *)

\* C8: extract_socket always returns a socket; each of the keys default, min,
\* max, soft_min, soft_max is in it exactly when the default_value sub-record
\* exists and carries the field (soft bounds under either spelling), and then
\* holds the value the sub-record carries, 0 included.
C8_SocketAlwaysDecoded ==
    pc = "socket_returned" =>
        /\ ret # Exc
        /\ LET pointer == arg.sock.default_value
               carried(field) == pointer.st = "ok" /\ field \in pointer.block.has
           IN  /\ "default" \in DOMAIN ret <=> carried("value")
               /\ carried("value") => ret.default = pointer.block.value
               /\ "min" \in DOMAIN ret <=> carried("min")
               /\ carried("min") => ret.min = pointer.block.min
               /\ "max" \in DOMAIN ret <=> carried("max")
               /\ carried("max") => ret.max = pointer.block.max
               /\ "soft_min" \in DOMAIN ret <=> carried("soft_min") \/ carried("softmin")
               /\ carried("soft_min") => ret.soft_min = pointer.block.soft_min
               /\ ~carried("soft_min") /\ carried("softmin")
                      => ret.soft_min = pointer.block.softmin
               /\ "soft_max" \in DOMAIN ret <=> carried("soft_max") \/ carried("softmax")
               /\ carried("soft_max") => ret.soft_max = pointer.block.soft_max
               /\ ~carried("soft_max") /\ carried("softmax")
                      => ret.soft_max = pointer.block.softmax

-----------------------------------------------------------------------------
(* C9 *)

\* C9: once the run has ended, every diagnostic that was appended to the sink
\* is in the warnings list of the written payload, at the same position.
C9_DiagnosticsKept ==
    pc \in {"done", "aborted", "fatal"} =>
        \A i \in DOMAIN warnings :
            /\ fs.json # None
            /\ i \in DOMAIN The(fs.json).warnings
            /\ The(fs.json).warnings[i] = warnings[i]

-----------------------------------------------------------------------------
(* C10 *)

\* C10: no failed or absent field read, pointer resolution or enum lookup
\* aborts the run of a file that could be opened.
C10_NoRecoverableAbort == pc # "aborted"

-----------------------------------------------------------------------------
(* C11 *)

\* C11: when the source file cannot be opened the run ends in the fatal state
\* and nothing has been written: neither the output document nor the output
\* directory exists.
C11_FatalWritesNothing ==
    pc = "fatal" => (fs.json = None /\ ~fs.out_dir)

-----------------------------------------------------------------------------
(* C12 *)

\* a payload without its timestamp
Timeless(p) ==
    IF p = None THEN None
    ELSE Some([k \in DOMAIN The(p) \ {"exported_at"} |-> The(p)[k]])

-----------------------------------------------------------------------------
(* C13 *)

\* the node trees of the payload
Trees == { Materials[m].node_tree : m \in WithTree }

\* C13: no optional field of the written document is null: a field the source
\* does not carry is left out. Checked for the alpha threshold of a material,
\* type, width and height of a node, type and direction of a socket and the
\* flag of a link; none of these is among the fields the data model marks
\* nullable. (blend_method is left out of the check: the material builder is
\* documented to emit it as null.)
C13_AbsentFieldsOmitted ==
    pc = "done" =>
        /\ \A m \in DOMAIN Materials : Materials[m].settings.alpha_threshold # None
        /\ \A tree \in Trees :
            /\ \A n \in DOMAIN NodesOf(tree) :
                /\ NodesOf(tree)[n].type # None
                /\ NodesOf(tree)[n].width # None
                /\ NodesOf(tree)[n].height # None
            /\ \A sock \in SocketsOf(tree) : sock.type # None /\ sock.in_out # None
            /\ \A l \in DOMAIN LinksOf(tree) : LinksOf(tree)[l].flag # None

-----------------------------------------------------------------------------
(* C14 *)

\* the addresses of the nodes of entry m of the payload, in order
NodePtrs(m) ==
    IF m \in WithTree
    THEN [n \in DOMAIN NodesOf(Materials[m].node_tree) |->
             NodesOf(Materials[m].node_tree)[n].ptr]
    ELSE <<>>

\* the addresses of the node records of material block m of the file, in order
SourcePtrs(m) ==
    IF TreeOf(file.materials[m]) # None
    THEN [n \in DOMAIN SourceNodes(m) |-> SourceNodes(m)[n].addr]
    ELSE <<>>

\* C14: the materials list of the payload has exactly one entry per material
\* block of the file, and entry m is the one made from the m-th block in
\* storage order: it carries that block's name, settings and node addresses.
C14_MaterialsInFileOrder ==
    payload # None =>
        /\ Len(Materials) = Len(file.materials)
        /\ \A m \in DOMAIN Materials :
            /\ Materials[m].name = IdName(file.materials[m])
            /\ Materials[m].settings =
                   ExtractMaterialSettings(file.materials[m], <<>>).settings
            /\ Materials[m].has_nodes = (TreeOf(file.materials[m]) # None)
            /\ NodePtrs(m) = SourcePtrs(m)

\* a written payload of two materials that differ in their settings and in
\* their nodes
C14_Witness ==
    /\ pc = "done"
    /\ Len(Materials) = 2
    /\ Materials[1].settings # Materials[2].settings
    /\ NodePtrs(1) # NodePtrs(2)
    /\ NodePtrs(1) # <<>>

-----------------------------------------------------------------------------
(* C15 *)

\* the two socket addresses a raw link stores
FromSockOf(link) == Get(link, "fromsock", 0)
ToSockOf(link) == Get(link, "tosock", 0)

\* what _collect_links returned, apart from the counts: one serialized link per
\* raw link in stored order, and the set of the non-null socket addresses the
\* raw links store as an end
CollectedLinksAndSet ==
    LET raw == LinkWalk.items
    IN  /\ Len(links) = Len(raw)
        /\ \A i \in DOMAIN raw : links[i] = ExtractLink(raw[i], file)
        /\ linked_socket_ptrs =
               UNION { {FromSockOf(raw[i]), ToSockOf(raw[i])} : i \in DOMAIN raw } \ {0}
        /\ DOMAIN link_counts = linked_socket_ptrs

-----------------------------------------------------------------------------
(* C16 *)

\* the three labels and the field of active_output each one fills
LabelFields ==
    { <<Surface, "surface_socket_identifier">>,
      <<Volume, "volume_socket_identifier">>,
      <<Displacement, "displacement_socket_identifier">> }

\* the decoded input sockets of the active output node of a tree of the payload
ActiveInputs(tree) ==
    LET n == Minimum({ i \in DOMAIN NodesOf(tree) :
                         NodesOf(tree)[i].ptr = tree.active_output.node_ptr })
    IN  NodesOf(tree)[n].inputs

\* the input sockets whose name or identifier is the label once blanks at both
\* ends are removed and the text is lower-cased
Labelled(inputs, label) ==
    { i \in DOMAIN inputs :
        \/ Lower(Strip(inputs[i].name)) = label
        \/ Lower(Strip(inputs[i].identifier)) = label }

\* the input sockets whose name or identifier equals the label but for case
LabelledByCase(inputs, label) ==
    { i \in DOMAIN inputs :
        \/ Lower(inputs[i].name) = label
        \/ Lower(inputs[i].identifier) = label }

\* C16 (amended): for the active output node and each label of surface, volume,
\* displacement, let s be the last input socket whose name or identifier,
\* stripped of surrounding blanks and lower-cased, equals the label. The field
\* <label>_socket_identifier is present exactly when s exists and its
\* identifier is not empty, and its value is the identifier of s.
C16_LabelFieldsFromLastMatch ==
    \A tree \in Trees :
        "active_output" \in DOMAIN tree =>
            \A lf \in LabelFields :
                LET inputs == ActiveInputs(tree)
                    hits == Labelled(inputs, lf[1])
                IN  IF hits # {} /\ inputs[Maximum(hits)].identifier # <<>>
                    THEN /\ lf[2] \in DOMAIN tree.active_output
                         /\ tree.active_output[lf[2]] = inputs[Maximum(hits)].identifier
                    ELSE lf[2] \notin DOMAIN tree.active_output

\* C16: for the active output node and each label of surface, volume,
\* displacement, the field <label>_socket_identifier is present exactly when
\* an input socket's name or identifier equals the label case-insensitively,
\* and its value is the identifier of such a socket.
C16_LabelFieldsByCase ==
    \A tree \in Trees :
        "active_output" \in DOMAIN tree =>
            \A lf \in LabelFields :
                LET inputs == ActiveInputs(tree)
                    hits == LabelledByCase(inputs, lf[1])
                IN  /\ (lf[2] \in DOMAIN tree.active_output) <=> (hits # {})
                    /\ lf[2] \in DOMAIN tree.active_output =>
                           \E i \in hits : tree.active_output[lf[2]] = inputs[i].identifier

\* a written payload whose active output node has an input socket with a
\* padded identifier that fills the surface field, beside the volume field
C16_Witness ==
    /\ pc = "done"
    /\ \E tree \in Trees :
        /\ "active_output" \in DOMAIN tree
        /\ "surface_socket_identifier" \in DOMAIN tree.active_output
        /\ "volume_socket_identifier" \in DOMAIN tree.active_output
        /\ LabelledByCase(ActiveInputs(tree), Surface) = {}
        /\ Labelled(ActiveInputs(tree), Surface) # {}

-----------------------------------------------------------------------------
(* C17 *)

\* the decoded nodes of the payload
DecodedNodes == UNION { Range(NodesOf(tree)) : tree \in Trees }

\* C17: no decoded node has a missing or zero dimension: where the source
\* carries no width or height, or a zero, the decoded node carries the default
\* (width 140, height 100).
C17_DecodedSizeNeverMissing ==
    \A node \in DecodedNodes :
        /\ node.width # None /\ The(node.width) # 0
        /\ node.height # None /\ The(node.height) # 0
        /\ NodeGeometry(node)[3] = The(node.width)
        /\ NodeGeometry(node)[4] = The(node.height)

-----------------------------------------------------------------------------
(* C18 *)

\* C18: ptr_to_ref returns null, without failing, for the address 0 and for
\* an address no block of the table owns; for every other address it returns
\* exactly {code, name}: the first two characters of the owning block's
\* stored name, and the stored name without them.
C18_PtrToRefContract ==
    pc = "ref_returned" =>
        IF arg.ptr = 0 \/ arg.ptr \notin DOMAIN arg.blend_file.block_from_addr
        THEN ret = RNone
        ELSE /\ ret.st = "ok"
             /\ DOMAIN ret.val = {"code", "name"}
             /\ ret.val.code \o ret.val.name
                    = The(arg.blend_file.block_from_addr[arg.ptr].id_name)
             /\ Len(ret.val.code) = 2

-----------------------------------------------------------------------------
(* C19 *)

\* the four endpoints of a link: the key of the emitted link and the pointer
\* field of the raw link it is resolved from
Endpoints ==
    { <<"from_node", "fromnode">>, <<"to_node", "tonode">>,
      <<"from_socket", "fromsock">>, <<"to_socket", "tosock">> }

\* C19: every endpoint of an emitted link is null or carries a ptr that is a
\* non-zero key of the address table (the address the raw link stores), and an
\* endpoint whose stored address is 0 or is no key of the table is null.
C19_EndpointsResolved ==
    /\ (pc \in {"links", "nodes"} /\ node_tree # None) =>
          \A i \in DOMAIN links : \A e \in Endpoints :
              LET stored == Get(LinkWalk.items[i], e[2], 0)
                  emitted == links[i][e[1]]
              IN  /\ emitted # None =>
                      /\ The(emitted).ptr # 0
                      /\ The(emitted).ptr \in DOMAIN file.block_from_addr
                      /\ The(emitted).ptr = stored
                  /\ (stored = 0 \/ stored \notin DOMAIN file.block_from_addr) =>
                         emitted = None
    /\ \A tree \in Trees : \A i \in DOMAIN LinksOf(tree) : \A e \in Endpoints :
          LinksOf(tree)[i][e[1]] # None =>
              /\ The(LinksOf(tree)[i][e[1]]).ptr # 0
              /\ The(LinksOf(tree)[i][e[1]]).ptr \in DOMAIN file.block_from_addr

\* two links are emitted: one from a dangling address into a resolved socket,
\* one from a resolved socket to the null address
C19_Witness ==
    /\ pc = "nodes"
    /\ node_tree # None
    /\ Len(links) = 2
    /\ \E i, j \in DOMAIN links :
        /\ Get(LinkWalk.items[i], "fromsock", 0) = Dangling
        /\ links[i].from_socket = None /\ links[i].from_node = None
        /\ links[i].to_socket # None /\ links[i].to_node # None
        /\ Get(LinkWalk.items[j], "tosock", 0) = 0
        /\ links[j].to_socket = None /\ links[j].to_node = None
        /\ links[j].from_socket # None /\ links[j].from_node # None

-----------------------------------------------------------------------------
(* C20 *)

\* the node types extract_node_properties decodes settings for
PropertyIdnames ==
    {"ShaderNodeBsdfToon", "ShaderNodeMixRGB", "ShaderNodeMix", "ShaderNodeValToRGB"}

\* C20: when extract_node decodes a node whose type name is outside the fixed
\* set, the decoded node has no `properties` entry and the sink is left as it
\* was: no diagnostic is produced.
C20_NoPropertiesOutsideSet ==
    [][ (/\ pc = "nodes"
         /\ ni <= Len(NodeWalk.items)
         /\ NodeWalk.items[ni].idname \notin PropertyIdnames
         /\ pc' # "aborted")
        => /\ all_nodes' = Append(all_nodes, all_nodes'[Len(all_nodes')])
           /\ all_nodes'[Len(all_nodes')].idname = NodeWalk.items[ni].idname
           /\ "properties" \notin DOMAIN all_nodes'[Len(all_nodes')]
           /\ warnings' = warnings ]_vars

\* a toon node was decoded with properties and a diagnostic in the sink, and
\* after it an output node without properties
C20_Witness ==
    /\ pc = "nodes"
    /\ Len(all_nodes) = 2
    /\ all_nodes[1].idname \in PropertyIdnames
    /\ "properties" \in DOMAIN all_nodes[1]
    /\ all_nodes[2].idname \notin PropertyIdnames
    /\ "properties" \notin DOMAIN all_nodes[2]
    /\ warnings # <<>>

-----------------------------------------------------------------------------
(* C21 *)

\* the explicit subtype code of a raw socket: that of its default_value
\* sub-record, null without sub-record or without the field
ExplicitSubtype(sock) ==
    IF sock.default_value.st = "ok" /\ CanGet(sock.default_value.block, "subtype")
    THEN Some(sock.default_value.block.subtype)
    ELSE None

\* C21: the subtype of a decoded socket is the name of the explicit subtype
\* code when that code is a key of the subtype table; otherwise the entry of
\* the type-to-subtype table for the socket's type; otherwise UNKNOWN.
C21_SubtypeResolution ==
    pc = "socket_returned" =>
        ret.subtype =
            IF ExplicitSubtype(arg.sock) # None
               /\ The(ExplicitSubtype(arg.sock)) \in DOMAIN SOCKET_SUBTYPE_MAP
            THEN SOCKET_SUBTYPE_MAP[The(ExplicitSubtype(arg.sock))]
            ELSE IF CanGet(arg.sock, "type")
                    /\ arg.sock.type \in DOMAIN SOCKET_TYPE_SUBTYPE_FALLBACK
            THEN SOCKET_TYPE_SUBTYPE_FALLBACK[arg.sock.type]
            ELSE "UNKNOWN"

\* a socket of type 2 (COLOR by its type) with the explicit code 14 was
\* decoded as ANGLE
C21_Witness ==
    /\ pc = "socket_returned"
    /\ CanGet(arg.sock, "type") /\ arg.sock.type = 2
    /\ ExplicitSubtype(arg.sock) = Some(14)
    /\ ret.subtype = "ANGLE"

-----------------------------------------------------------------------------
(* C22 *)

\* C22: whatever subset of the three fields the material block lacks,
\* extract_material_settings returns the three settings; a missing blend method
\* gives blend_method null and leaves the sink as it was, a missing threshold
\* gives null, a missing flag gives no culling; and a field that is present is
\* decoded to what it is decoded to when no field is missing.
C22_SettingsFieldsIndependent ==
    pc = "settings_returned" =>
        LET block == arg.material_block
            whole == ExtractMaterialSettings([block EXCEPT !.has = MaterialFields],
                                             arg.sink)
        IN  /\ DOMAIN ret.settings =
                   {"blend_method", "alpha_threshold", "use_backface_culling"}
            /\ IF CanGet(block, "blend_method")
               THEN /\ ret.settings.blend_method = whole.settings.blend_method
                    /\ ret.warnings = whole.warnings
               ELSE /\ ret.settings.blend_method = None
                    /\ ret.warnings = arg.sink
            /\ ret.settings.alpha_threshold =
                   IF CanGet(block, "alpha_threshold")
                   THEN Some(block.alpha_threshold) ELSE None
            /\ ret.settings.use_backface_culling =
                   IF CanGet(block, "blend_flag")
                   THEN whole.settings.use_backface_culling ELSE FALSE

\* the call returned for a block that lacks the blend method and carries a
\* threshold and a flag with the culling bit
C22_Witness ==
    /\ pc = "settings_returned"
    /\ arg.material_block.has = {"alpha_threshold", "blend_flag"}
    /\ arg.sink # <<>>
    /\ ret.settings.blend_method = None
    /\ ret.settings.alpha_threshold = Some(1)
    /\ ret.settings.use_backface_culling
    /\ ret.warnings = arg.sink

-----------------------------------------------------------------------------
(* C23 *)

\* the ColorBand of a raw node: null unless the node is a gradient-ramp node
\* whose storage pointer resolves to a ColorBand
ColorBandOf(node) ==
    IF node.idname = "ShaderNodeValToRGB" /\ node.storage.st = "ok"
       /\ node.storage.block.dna_type_name = "ColorBand"
    THEN Some(node.storage.block)
    ELSE None

\* the first n stops of a ColorBand as the document shows them
StopsOf(band, n) ==
    [j \in 1..n |->
        [pos |-> band.data[j].pos,
         color |-> << band.data[j].r, band.data[j].g, band.data[j].b,
                      IF "a" \in band.data[j].has THEN band.data[j].a ELSE 1 >>]]

\* the gradient-ramp nodes of the written payload: material, position in the
\* node list, and the ColorBand of the source node at that position
RampNodes ==
    { <<m, i>> \in WithTree \X (1..MaxNodes) :
        /\ pc = "done"
        /\ i \in DOMAIN SourceNodes(m)
        /\ ColorBandOf(SourceNodes(m)[i]) # None }

\* C23 (amended): a gradient-ramp node whose ColorBand holds n stops is decoded
\* with properties.ramp_settings; for n >= 1 its color_ramp is the list of
\* exactly those n stops as {pos, color [r, g, b, a]} in source order; for
\* n = 0 the node has no color_ramp key.
C23_RampStopsUnlessEmpty ==
    \A mi_ \in RampNodes :
        LET node == NodesOf(Materials[mi_[1]].node_tree)[mi_[2]]
            band == The(ColorBandOf(SourceNodes(mi_[1])[mi_[2]]))
        IN  /\ "properties" \in DOMAIN node
            /\ "ramp_settings" \in DOMAIN node.properties
            /\ IF band.tot = 0
               THEN "color_ramp" \notin DOMAIN node
               ELSE /\ "color_ramp" \in DOMAIN node
                    /\ node.color_ramp = StopsOf(band, band.tot)

\* C23: a gradient-ramp node whose ColorBand holds n stops is decoded with
\* properties.ramp_settings and a color_ramp list of exactly those n stops as
\* {pos, color [r, g, b, a]} in source order.
C23_RampStops ==
    \A mi_ \in RampNodes :
        LET node == NodesOf(Materials[mi_[1]].node_tree)[mi_[2]]
            band == The(ColorBandOf(SourceNodes(mi_[1])[mi_[2]]))
        IN  /\ "properties" \in DOMAIN node
            /\ "ramp_settings" \in DOMAIN node.properties
            /\ "color_ramp" \in DOMAIN node
            /\ node.color_ramp = StopsOf(band, band.tot)

\* a written payload with a ramp node of three stops, in an order that is not
\* the order of their positions
C23_Witness ==
    \E mi_ \in RampNodes :
        LET node == NodesOf(Materials[mi_[1]].node_tree)[mi_[2]]
        IN  /\ "color_ramp" \in DOMAIN node
            /\ Len(node.color_ramp) = 3
            /\ node.color_ramp[1].pos < node.color_ramp[2].pos
            /\ node.color_ramp[2].pos > node.color_ramp[3].pos

-----------------------------------------------------------------------------
(* C24 *)

\* C24: within one node tree a node (and with it its sockets) is decoded only
\* when the link pass has gone through the whole link list and its set and
\* counts are final, and no step of the node pass changes the set or the
\* counts.
C24_LinkPassBeforeSockets ==
    [][ /\ (all_nodes' # all_nodes /\ all_nodes' # <<>>) =>
               /\ pc = "nodes"
               /\ li = Len(LinkWalk.items) + 1
               /\ ~LinkWalk.dangling
               /\ CollectedLinksAndSet
        /\ pc = "nodes" => UNCHANGED <<linked_socket_ptrs, link_counts, links, li>> ]_vars

\* two nodes were decoded after a link pass over two links; a socket of the
\* second node carries the count of both
C24_Witness ==
    /\ pc = "nodes"
    /\ ni = 3
    /\ Len(links) = 2
    /\ \E sock \in Range(all_nodes[2].inputs) : sock.is_linked /\ sock.link_count = 2

-----------------------------------------------------------------------------
(* One worker per material.  A worker runs _build_material_entry on its own   *)
(* locals; the file is read by all and the sink is the one list all append    *)
(* to.  One worker runs at a time and any other may be resumed between two    *)
(* steps.  The run is made after a sequential run of the same file, whose     *)
(* written payload is still in fs.json when the workers' payload is built.    *)
(* `ret` names the running worker (0: none), `arg` holds the locals of the    *)
(* workers that are not running.                                              *)

Locals ==
    [pc |-> pc, mi |-> mi, material_entries |-> material_entries, entry |-> entry,
     node_tree |-> node_tree, li |-> li, ni |-> ni,
     linked_socket_ptrs |-> linked_socket_ptrs, link_counts |-> link_counts,
     links |-> links, all_nodes |-> all_nodes, non_gltf_nodes |-> non_gltf_nodes,
     output_node_flags |-> output_node_flags]

FreshLocals(k) ==
    [pc |-> "materials", mi |-> k, material_entries |-> <<>>, entry |-> None,
     node_tree |-> None, li |-> 1, ni |-> 1, linked_socket_ptrs |-> {},
     link_counts |-> EmptyDict, links |-> <<>>, all_nodes |-> <<>>,
     non_gltf_nodes |-> <<>>, output_node_flags |-> EmptyDict]

Resume(l) ==
    /\ pc' = l.pc
    /\ mi' = l.mi
    /\ material_entries' = l.material_entries
    /\ entry' = l.entry
    /\ node_tree' = l.node_tree
    /\ li' = l.li
    /\ ni' = l.ni
    /\ linked_socket_ptrs' = l.linked_socket_ptrs
    /\ link_counts' = l.link_counts
    /\ links' = l.links
    /\ all_nodes' = l.all_nodes
    /\ non_gltf_nodes' = l.non_gltf_nodes
    /\ output_node_flags' = l.output_node_flags

WorkerEnded(l) == l.material_entries # <<>> \/ l.pc = "aborted"

Working == ret # None /\ ret # Some(0)

\* the sequential run of main
SequentialStep ==
    /\ ret = None
    /\ Next

\* the second run of main on the same file, the written payload left in place
RerunWorkers ==
    /\ pc \in {"done", "aborted", "fatal"}
    /\ ret = None
    /\ ret' = Some(0)
    /\ Resume([FreshLocals(1) EXCEPT !.pc = "start"])
    /\ payload' = None
    /\ UNCHANGED <<file, warnings, fs, arg>>

\* main outside the loop over the materials
MainStep ==
    /\ ret = Some(0)
    /\ \/ ResolveOutputJsonPath
       \/ OpenCached
       \/ BuildExportPayload
       \/ WriteText

\* _build_export_payload: one worker per material block, one of them started
Dispatch ==
    /\ ret = Some(0)
    /\ pc = "materials"
    /\ mi = 1
    /\ material_entries = <<>>
    /\ FindBlocksFromCode(file) # <<>>
    /\ arg' = [k \in DOMAIN FindBlocksFromCode(file) |-> FreshLocals(k)]
    /\ \E k \in DOMAIN FindBlocksFromCode(file) :
           /\ ret' = Some(k)
           /\ Resume(FreshLocals(k))
    /\ UNCHANGED <<file, warnings, payload, fs>>

\* the running worker takes one step of _build_material_entry
WorkerStep ==
    /\ Working
    /\ material_entries = <<>>
    /\ \/ BuildMaterialEntry
       \/ CollectLinksStep
       \/ CollectLinksEnd
       \/ CollectNodesStep
       \/ FinishNodeTree

\* the running worker is suspended and another one, not yet ended, resumed
Switch ==
    /\ Working
    /\ \E k \in DOMAIN arg \ ret :
           /\ ~WorkerEnded(arg[k])
           /\ arg' = [arg EXCEPT ![The(ret)] = Locals]
           /\ ret' = Some(k)
           /\ Resume(arg[k])
    /\ UNCHANGED <<file, warnings, payload, fs>>

\* all workers have ended: their entries in the order of the material blocks,
\* or the exception of one of them
Gather ==
    /\ Working
    /\ \E pool \in {[arg EXCEPT ![The(ret)] = Locals]} :
           /\ \A k \in DOMAIN pool : WorkerEnded(pool[k])
           /\ IF \E k \in DOMAIN pool : pool[k].pc = "aborted"
              THEN /\ pc' = "aborted"
                   /\ UNCHANGED <<mi, material_entries>>
              ELSE /\ pc' = "materials"
                   /\ mi' = Len(FindBlocksFromCode(file)) + 1
                   /\ material_entries' =
                          [k \in DOMAIN pool |-> pool[k].material_entries[1]]
    /\ ret' = Some(0)
    /\ UNCHANGED <<file, warnings, treeVars, payload, fs, arg>>

InitWorkers ==
    /\ file \in MaterialFiles \cup FailureFiles
    /\ pc = "start"
    /\ IdleRun
    /\ arg = None
    /\ ret = None

NextWorkers ==
    \/ SequentialStep
    \/ RerunWorkers
    \/ MainStep
    \/ Dispatch
    \/ WorkerStep
    \/ Switch
    \/ Gather

SpecWorkers == InitWorkers /\ [][NextWorkers]_vars

SameDiagnostics(a, b) ==
    /\ Len(a) = Len(b)
    /\ \A text \in Range(a) \cup Range(b) : Count(a, text) = Count(b, text)

SameButWarnings(w, s) ==
    /\ w.materials = s.materials
    /\ w.schema_version = s.schema_version
    /\ w.blender_version = s.blender_version
    /\ w.blend = s.blend

\* C25 as stated: the payload the workers' run builds is the payload of the
\* sequential run (the time stamp aside), and the one run aborts when the other does
C25_WorkersSamePayload ==
    /\ (ret = Some(0) /\ pc = "built") =>
           /\ fs.json # None
           /\ SameButWarnings(The(payload), The(fs.json))
           /\ The(payload).warnings = The(fs.json).warnings
    /\ (ret = Some(0) /\ pc = "aborted") => fs.json = None

\* C25, amended: the workers' run builds the materials list of the sequential
\* run, entry for entry in the order of the material blocks, and the same
\* diagnostics each as many times, in the order the workers appended them;
\* it aborts exactly when the sequential run does
C25_WorkersSameMaterials ==
    /\ (ret = Some(0) /\ pc = "built") =>
           /\ fs.json # None
           /\ SameButWarnings(The(payload), The(fs.json))
           /\ SameDiagnostics(The(payload).warnings, The(fs.json).warnings)
    /\ (ret = Some(0) /\ pc = "aborted") => fs.json = None

C25_Witness ==
    /\ ret = Some(0)
    /\ pc = "built"
    /\ fs.json # None
    /\ Len(The(payload).materials) = 2
    /\ \A i \in 1..2 : "node_tree" \in DOMAIN The(payload).materials[i]
    /\ The(payload).warnings # The(fs.json).warnings
    /\ \E k \in DOMAIN arg : arg[k].pc = "nodes"

-----------------------------------------------------------------------------
(* C26 *)

\* C26: when two or more links that enter the active output node have the
\* same (non-empty) key, output_targets has that key, and the entry under it
\* is the upstream end of the last of those links in the order of the links.
C26_SameKeyLastLinkWins ==
    \A m \in WithTree :
        LET tree == Materials[m].node_tree
        IN  "active_output" \in DOMAIN tree =>
                \A i, j \in LinksInto(tree, tree.active_output.node_ptr) :
                    (i < j /\ KeyOf(LinksOf(tree)[i]) = KeyOf(LinksOf(tree)[j])
                     /\ KeyOf(LinksOf(tree)[j]) # <<>>
                     /\ \A n \in LinksInto(tree, tree.active_output.node_ptr) :
                            n > j => KeyOf(LinksOf(tree)[n]) # KeyOf(LinksOf(tree)[j]))
                    => /\ KeyOf(LinksOf(tree)[j]) \in DOMAIN TargetsOf(tree)
                       /\ TargetsOf(tree)[KeyOf(LinksOf(tree)[j])] = Upstream(LinksOf(tree)[j])

\* two links with one key enter the active output node from different
\* sources, and the entry under the key is not the one the first link made
C26_Witness ==
    /\ pc = "built"
    /\ \E m \in WithTree :
        LET tree == Materials[m].node_tree
        IN  /\ "active_output" \in DOMAIN tree
            /\ \E i, j \in LinksInto(tree, tree.active_output.node_ptr) :
                /\ i < j
                /\ KeyOf(LinksOf(tree)[i]) = KeyOf(LinksOf(tree)[j])
                /\ KeyOf(LinksOf(tree)[j]) \in DOMAIN TargetsOf(tree)
                /\ TargetsOf(tree)[KeyOf(LinksOf(tree)[j])] # Upstream(LinksOf(tree)[i])

-----------------------------------------------------------------------------
(* C27 *)

\* C27: in every node tree of the payload that has active_output, its
\* node_ptr is the ptr of an entry of the tree's nodes list whose idname is
\* ShaderNodeOutputMaterial; a tree with output_targets has active_output.
C27_ActiveOutputIsOutputNode ==
    \A m \in WithTree :
        LET tree == Materials[m].node_tree
        IN  /\ "active_output" \in DOMAIN tree =>
                   \E n \in DOMAIN NodesOf(tree) :
                       /\ NodesOf(tree)[n].ptr = tree.active_output.node_ptr
                       /\ NodesOf(tree)[n].idname = OutputMaterial
            /\ "output_targets" \in DOMAIN tree => "active_output" \in DOMAIN tree

\* a tree whose first node is not an output node, with an active output that
\* links enter
C27_Witness ==
    /\ pc = "built"
    /\ \E m \in WithTree :
        LET tree == Materials[m].node_tree
        IN  /\ "active_output" \in DOMAIN tree
            /\ "output_targets" \in DOMAIN tree
            /\ Len(NodesOf(tree)) >= 2
            /\ NodesOf(tree)[1].idname # OutputMaterial

-----------------------------------------------------------------------------
(* The loop of _collect_links on its own, then extract_socket with the set    *)
(* and the counts it returned: links whose ends are null or one of two socket *)
(* addresses, with and without the field fromsock, and a socket whose own     *)
(* address is null or one of them                                             *)

SockEnds == {0, InputAddr(1, 1, 1), OutputAddr(1, 1, 1)}

CountedLinks ==
    { [RawLink(LinkAddr(1, 1), 0, from, 0, to) EXCEPT !.has = has] :
        from \in SockEnds, to \in SockEnds,
        has \in {LinkFields, LinkFields \ {"fromsock"}} }

CountedSockets ==
    { RawSocket(addr, tColor, tColor, 1) : addr \in {0, InputAddr(1, 1, 1)} }

InitLinkCount ==
    /\ pc = "collect_links"
    /\ IdleRun
    /\ file = None
    /\ arg \in [link_list : SeqUpTo(CountedLinks, MaxLinks), sock : CountedSockets]
    /\ ret = None

\* _collect_links: one turn of the loop, on the aggregates only
CallCollectLink ==
    /\ pc = "collect_links"
    /\ li <= Len(arg.link_list)
    /\ \E agg \in {CollectLink(arg.link_list[li],
                               [linked_socket_ptrs |-> linked_socket_ptrs,
                                link_counts |-> link_counts])} :
           /\ linked_socket_ptrs' = agg.linked_socket_ptrs
           /\ link_counts' = agg.link_counts
    /\ li' = li + 1
    /\ UNCHANGED <<pc, file, warnings, mi, material_entries, entry, node_tree, ni, links,
                   all_nodes, non_gltf_nodes, output_node_flags, payload, fs, arg, ret>>

\* extract_socket with the aggregates _collect_links returned
CallExtractSocketLinked ==
    /\ pc = "collect_links"
    /\ li > Len(arg.link_list)
    /\ ret' = ExtractSocket(arg.sock, linked_socket_ptrs, link_counts)
    /\ pc' = "socket_returned"
    /\ UNCHANGED <<file, warnings, mi, material_entries, treeVars, payload, fs, arg>>

NextLinkCount ==
    \/ CallCollectLink
    \/ CallExtractSocketLinked

SpecLinkCount == InitLinkCount /\ [][NextLinkCount]_vars

\* C28: at every point of the link pass the linked-socket set is the key set
\* of the link-count map, every count is at least 1, and address 0 is in
\* neither; a socket whose own address is 0 is decoded with is_linked false
\* and link_count 0.
C28_AggregatesAgree ==
    /\ linked_socket_ptrs = DOMAIN link_counts
    /\ \A ptr \in DOMAIN link_counts : link_counts[ptr] >= 1
    /\ 0 \notin linked_socket_ptrs
    /\ 0 \notin DOMAIN link_counts
    /\ (pc = "socket_returned" /\ arg.sock.addr = 0) =>
           /\ ret.is_linked = FALSE
           /\ ret.link_count = 0

\* links with null ends have been walked, other sockets are counted twice,
\* and the socket decoded has the null address
C28_Witness ==
    /\ pc = "socket_returned"
    /\ arg.sock.addr = 0
    /\ \E l \in DOMAIN arg.link_list :
           arg.link_list[l].fromsock = 0 /\ "fromsock" \in arg.link_list[l].has
    /\ \E ptr \in DOMAIN link_counts : link_counts[ptr] = 2
    /\ ret.ptr = 0

-----------------------------------------------------------------------------
(* C29 *)

\* the walk of a socket list or the decoding of one of its sockets fails
SideFails(list) ==
    \/ list.st = "raise"
    \/ list.dangling
    \/ \E i \in DOMAIN list.items : ~({"name", "identifier"} \subseteq list.items[i].has)

\* C29: every node of a tree is emitted, and on each side (inputs, outputs)
\* its list is empty when the walk of that side or the decoding of one of its
\* sockets fails, and otherwise holds every socket of that side in order,
\* whatever happens on the other side.
C29_SocketListsAllOrNothing ==
    \A m \in WithTree :
        LET tree == Materials[m].node_tree
            src == SourceNodes(m)
        IN  /\ Len(NodesOf(tree)) = Len(src)
            /\ \A n \in DOMAIN src :
                 \A side \in {"inputs", "outputs"} :
                    LET got == NodesOf(tree)[n][side]
                        list == src[n][side]
                    IN  IF SideFails(list)
                        THEN got = <<>>
                        ELSE /\ Len(got) = Len(list.items)
                             /\ \A i \in DOMAIN got : got[i].ptr = list.items[i].addr

\* a node whose second input socket cannot be decoded after a first one that
\* can: it is emitted with no input and with its output
C29_Witness ==
    /\ pc = "built"
    /\ \E m \in WithTree :
        \E n \in DOMAIN SourceNodes(m) :
            LET node == NodesOf(Materials[m].node_tree)[n]
                list == SourceNodes(m)[n].inputs
            IN  /\ Len(list.items) = 2
                /\ {"name", "identifier"} \subseteq list.items[1].has
                /\ ~({"name", "identifier"} \subseteq list.items[2].has)
                /\ node.inputs = <<>>
                /\ Len(node.outputs) = 1

-----------------------------------------------------------------------------
(* The launcher: main of launcher.py, one action per dialog, subprocess or    *)
(* file-system test.  `ret` holds the locals of main and what it has done so  *)
(* far: the results of the has_bat calls, the install_bat calls with their    *)
(* target and result, the dialogs shown and the reader command once started.  *)
(* What the user, the file system and the subprocesses answer is free.        *)

BlenderDirs == {"C:/Program Files/Blender", "D:/blender-portable"}

BlendPaths ==
    { [parent |-> "C:/art", stem |-> "scene", suffix |-> ".blend"],
      [parent |-> "C:/art", stem |-> "tree", suffix |-> ".blend"] }

\* Path(LOCALAPPDATA or home) / "BlenderPyPackages" / "BAT"
FallbackTarget == "LOCALAPPDATA/BlenderPyPackages/BAT"

\* <dir>/<version>/python/bin/python.exe or <dir>/python/bin/python.exe
FindBlenderPython(blender_dir) ==
    {None, Some(blender_dir \o "/4.2/python/bin/python.exe"),
     Some(blender_dir \o "/python/bin/python.exe")}

InitLauncher ==
    /\ pc = "ask_blender_dir"
    /\ IdleRun
    /\ file = None
    /\ arg = None
    /\ ret = [blender_dir |-> None, blender_py |-> None, extra_path |-> None,
              blend_path |-> None, checks |-> <<>>, installs |-> <<>>,
              answers |-> <<>>, dialogs |-> <<>>, reader |-> None]

LauncherStep(next_pc, locals) ==
    /\ pc' = next_pc
    /\ ret' = locals
    /\ UNCHANGED <<file, warnings, mi, material_entries, treeVars, payload, fs, arg>>

ShowAndReturn(title) ==
    LauncherStep("returned", [ret EXCEPT !.dialogs = Append(@, title)])

\* blender_dir = ask_blender_dir(); if not blender_dir: return
AskBlenderDir ==
    /\ pc = "ask_blender_dir"
    /\ \E d \in {None} \cup {Some(x) : x \in BlenderDirs} :
           IF d = None
           THEN LauncherStep("returned", ret)
           ELSE LauncherStep("find_blender_python", [ret EXCEPT !.blender_dir = d])

\* blender_py = find_blender_python(blender_dir), and the test that it exists
CallFindBlenderPython ==
    /\ pc = "find_blender_python"
    /\ \E found \in FindBlenderPython(The(ret.blender_dir)), exists \in BOOLEAN :
           IF found = None \/ ~exists
           THEN ShowAndReturn("Blender Python not found")
           ELSE LauncherStep("has_bat", [ret EXCEPT !.blender_py = found])

\* if not has_bat(blender_py)
HasBat ==
    /\ pc = "has_bat"
    /\ \E ok \in BOOLEAN :
           LauncherStep(IF ok THEN "ask_blend_file" ELSE "ask_yes_no",
                        [ret EXCEPT !.checks = Append(@, [extra_pythonpath |-> None,
                                                          ok |-> ok])])

\* if not ask_yes_no("BAT not found", ...): show_info("Cancelled", ...); return
AskYesNo ==
    /\ pc = "ask_yes_no"
    /\ \E ans \in BOOLEAN :
           IF ans
           THEN LauncherStep("install_bat", [ret EXCEPT !.answers = Append(@, ans)])
           ELSE LauncherStep("returned", [ret EXCEPT !.answers = Append(@, ans),
                                                     !.dialogs = Append(@, "Cancelled")])

\* the fallback starts although the normal install did not fail
InstallBatThenFallback ==
    /\ pc = "install_bat"
    /\ \E ok \in BOOLEAN :
           LauncherStep("install_fallback",
                        [ret EXCEPT !.installs = Append(@, [target_dir |-> None,
                                                            ok |-> ok])])

\* ok, log = install_bat(blender_py, target_dir=None)
InstallBat ==
    /\ pc = "install_bat"
    /\ \E ok \in BOOLEAN :
           LauncherStep(IF ok THEN "verify" ELSE "install_fallback",
                        [ret EXCEPT !.installs = Append(@, [target_dir |-> None,
                                                            ok |-> ok])])

\* ok2, log2 = install_bat(blender_py, target_dir=fallback)
InstallBatFallback ==
    /\ pc = "install_fallback"
    /\ \E ok2 \in BOOLEAN :
       \E done \in {[ret EXCEPT !.installs = Append(@, [target_dir |-> Some(FallbackTarget),
                                                        ok |-> ok2])]} :
           IF ok2
           THEN LauncherStep("verify", [done EXCEPT !.extra_path = Some(FallbackTarget)])
           ELSE LauncherStep("returned",
                             [done EXCEPT !.dialogs = Append(@, "Install failed")])

\* if not has_bat(blender_py, extra_pythonpath=extra_path)
HasBatAfterInstall ==
    /\ pc = "verify"
    /\ \E ok \in BOOLEAN :
       \E done \in {[ret EXCEPT !.checks = Append(@, [extra_pythonpath |-> ret.extra_path,
                                                      ok |-> ok])]} :
           IF ok
           THEN LauncherStep("ask_blend_file", done)
           ELSE LauncherStep("returned",
                             [done EXCEPT !.dialogs = Append(@, "Install issue")])

\* blend_path = ask_blend_file(); if not blend_path: return
AskBlendFile ==
    /\ pc = "ask_blend_file"
    /\ \E f \in {None} \cup {Some(x) : x \in BlendPaths} :
           IF f = None
           THEN LauncherStep("returned", ret)
           ELSE LauncherStep("reader_script", [ret EXCEPT !.blend_path = f])

\* if not reader_script.exists()
ReaderScriptExists ==
    /\ pc = "reader_script"
    /\ \E exists \in BOOLEAN :
           IF exists
           THEN LauncherStep("run_reader", ret)
           ELSE ShowAndReturn("Missing script")

\* subprocess.run([blender_py, reader_script, blend_path, out_json.name], env=env)
RunReader ==
    /\ pc = "run_reader"
    /\ \E returncode \in {0, 1} :
           LauncherStep("returned",
                        [ret EXCEPT !.reader =
                                        Some([python |-> The(ret.blender_py),
                                              script |-> "read_blend.py",
                                              blend |-> The(ret.blend_path),
                                              out_name |-> The(ret.blend_path).stem
                                                           \o ".json",
                                              pythonpath |-> ret.extra_path]),
                                    !.dialogs = Append(@, IF returncode # 0
                                                          THEN "Reader failed"
                                                          ELSE "Done")])

NextLauncher ==
    \/ AskBlenderDir
    \/ CallFindBlenderPython
    \/ HasBat
    \/ AskYesNo
    \/ InstallBat
    \/ InstallBatFallback
    \/ HasBatAfterInstall
    \/ AskBlendFile
    \/ ReaderScriptExists
    \/ RunReader

SpecLauncher == InitLauncher /\ [][NextLauncher]_vars

\* C30: the reader is started only when a Blender Python was found, the last
\* import check of the run succeeded (the first one, or the one made after an
\* install that succeeded), no install was declined and a source file was
\* chosen; a run that has returned after a cancelled dialog, a declined
\* install, two failed installs or a failed re-check has not started it; the
\* fallback install is only ever the second install, made after the normal
\* one failed.
C30_ReaderStartedOnlyWhenReady ==
    /\ ret.reader # None =>
           /\ ret.blender_py # None
           /\ ret.blend_path # None
           /\ ret.checks # <<>>
           /\ ret.checks[Len(ret.checks)].ok
           /\ Len(ret.checks) = 2 =>
                  /\ ret.installs # <<>>
                  /\ ret.installs[Len(ret.installs)].ok
                  /\ ret.checks[2].extra_pythonpath = ret.installs[Len(ret.installs)].target_dir
           /\ The(ret.reader).pythonpath = ret.checks[Len(ret.checks)].extra_pythonpath
    /\ (pc = "returned"
        /\ \/ ret.blender_dir = None
           \/ ret.blender_py = None
           \/ ret.blend_path = None
           \/ \E i \in DOMAIN ret.answers : ~ret.answers[i]
           \/ (ret.installs # <<>> /\ \A i \in DOMAIN ret.installs : ~ret.installs[i].ok)
           \/ (ret.checks # <<>> /\ ~ret.checks[Len(ret.checks)].ok))
       => ret.reader = None
    /\ \A i \in DOMAIN ret.installs :
           ret.installs[i].target_dir # None =>
               /\ i = 2
               /\ ret.installs[1].target_dir = None
               /\ ~ret.installs[1].ok

\* the reader has been started after a failed normal install, a fallback
\* install that succeeded and a re-check that found the library there
C30_Witness ==
    /\ pc = "returned"
    /\ ret.reader # None
    /\ Len(ret.installs) = 2
    /\ Len(ret.checks) = 2
    /\ The(ret.reader).pythonpath = Some(FallbackTarget)
    /\ The(ret.reader).out_name = "scene.json"

====
